---- MODULE Spec2Model ----
(***************************************************************************)
(* The bytecode virtual machine of chili_interp (vm/mod.rs) together with  *)
(* the part of the interpreter session (interp.rs) that builds the code    *)
(* handed to it.  Operand-stack indices are 0-based as in the source; the  *)
(* TLA+ sequence holding the stack is 1-based, so source index i is        *)
(* element i + 1.                                                          *)
(***************************************************************************)
EXTENDS Integers, Sequences, FiniteSets, TLC

VARIABLES
    constants,          \* Interp::constants
    globals,            \* Interp::globals
    evaluated_globals,  \* InterpSess::evaluated_globals
    scn,                \* the expression handed to InterpSess::eval (its lowering input)
    stack,              \* VM::stack
    frames,             \* VM::frames
    frame,              \* VM::frame, the cached pointer into frames (0 = null)
    status,             \* "session" | "running" | "returned" | "panicked"
    result,             \* the Value run_func returned
    ffi_values,         \* the arguments last handed to the foreign-call boundary
    push_frame_calls,   \* history: number of push_frame calls of the run
    returns_executed,   \* history: number of Return instructions executed
    last,               \* history: the instruction executed last
    bindings_to_globals,\* Interp::bindings_to_globals
    lowered_code,       \* eval's start_code while the expression is being lowered
    env,                \* the Env on top of InterpSess::env_stack: binding id -> local slot
    encountered_items,  \* CheckSess::encountered_items
    checking,           \* the check_top_level_binding calls in progress, outermost first
    global_bindings     \* the top-level bindings get_global_binding_id finds

vars == <<constants, globals, evaluated_globals, scn, stack, frames, frame,
          status, result, ffi_values, push_frame_calls, returns_executed, last,
          bindings_to_globals, lowered_code, env,
          encountered_items, checking, global_bindings>>

\* the state of the checker, which no step of the interpreter touches
CheckVars == <<encountered_items, checking, global_bindings>>
CheckSess_new == encountered_items = {} /\ checking = <<>> /\ global_bindings = {}

----------------------------------------------------------------------------
(* Capacities and bounds *)

FRAMES_MAX == 64
U8_MAX == 255
STACK_MAX == FRAMES_MAX * U8_MAX + 1

MaxArgs == 2        \* declared parameters of a called function: 0..MaxArgs
MaxLocals == 2      \* locals of a called function: 0..MaxLocals
MaxTemps == 1       \* temporaries a callee leaves on the stack before Return
MaxPre == 1         \* values the caller holds below the arguments
MaxInits == 2       \* entries of evaluated_globals
MaxAgg == 3         \* elements pushed into an aggregate: 1..MaxAgg
MaxSteps == 3       \* calls the lowering pass makes into the session, traced one by one
MaxIds == 2         \* binding ids handed to insert_global / get_global: 1..MaxIds
MaxRuns == 2        \* sequential evaluations on one Interp
MaxLive == 1        \* parameters, locals, initializers of the programs run under fairness
NumGlobals == 3     \* globals defined before the run

Vals == {2, 3, 5, 7}

----------------------------------------------------------------------------
(* Values *)

NoValue == [tag |-> "None", v |-> 0]
Value_unit == [tag |-> "Unit", v |-> 0]
Value_Int(n) == [tag |-> "Int", v |-> n]
Value_Bool(b) == [tag |-> "Bool", v |-> b]
Value_Func(f) == [tag |-> "Func", v |-> f]
Value_ForeignFunc(f) == [tag |-> "ForeignFunc", v |-> f]
Value_Pointer(p) == [tag |-> "Pointer", v |-> p]

\* Value::unit() is the aggregate without elements
Value_Aggregate(elements) ==
    IF elements = <<>> THEN Value_unit ELSE [tag |-> "Aggregate", v |-> elements]
is_aggregate(value) == value.tag \in {"Unit", "Aggregate"}
as_aggregate(value) == IF value.tag = "Unit" THEN <<>> ELSE value.v

\* Pointer::from(&mut globals[slot]): the address of a global cell
PointerToGlobal(slot) == [space |-> "globals", index |-> slot]

Inst(op, arg) == [op |-> op, arg |-> arg]

CompiledCode_new == [instructions |-> <<>>, locals |-> 0]
code_push(code, inst) == [code EXCEPT !.instructions = Append(@, inst)]

Function(name, arg_types, code) ==
    [name |-> name, arg_types |-> arg_types, code |-> code]

----------------------------------------------------------------------------
(* Stack<T, CAPACITY> *)

stack_len(s) == Len(s)
stack_push(s, v) == Append(s, v)
stack_top(s) == s[Len(s)]
stack_popped(s) == SubSeq(s, 1, Len(s) - 1)
stack_peek(s, offset) == s[Len(s) - offset]
stack_get(s, index) == s[index + 1]
stack_set(s, index, v) == [s EXCEPT ![index + 1] = v]
stack_truncate(s, len) == IF len < Len(s) THEN SubSeq(s, 1, len) ELSE s

\* Stack::push past CAPACITY is fatal
stack_overflow(s, n, CAPACITY) == Len(s) + n > CAPACITY

Units(n) == [k \in 1..n |-> Value_unit]

RECURSIVE Pow2(_)
Pow2(n) == IF n = 0 THEN 1 ELSE 2 * Pow2(n - 1)

\* the values of n successive pops, in the order popped
RECURSIVE PopN(_, _)
PopN(s, n) == IF n = 0 THEN <<>> ELSE <<stack_top(s)>> \o PopN(stack_popped(s), n - 1)

RECURSIVE Reverse(_)
Reverse(s) == IF s = <<>> THEN <<>> ELSE Append(Reverse(Tail(s)), Head(s))

----------------------------------------------------------------------------
(* Interp / InterpSess: the constant pool and the code handed to the VM.   *)
(* A lowering state st is the pair (self.interp.constants, code).          *)

Interp_new_constants_zero == <<Value_Int(0)>>
Interp_new_constants == <<Value_unit>>

\* Option<usize>
Some(slot) == [some |-> TRUE, v |-> slot]
None == [some |-> FALSE, v |-> 0]

\* HashMap::new()
Interp_new_bindings == <<>>

insert_global_appending(gs, b, id, value) ==
    [globals |-> Append(gs, value), bindings |-> (id :> Len(gs)) @@ b, slot |-> Len(gs)]
\* InterpSess::insert_global
insert_global(gs, b, id, value) ==
    IF id \in DOMAIN b
    THEN [globals |-> [gs EXCEPT ![b[id] + 1] = value], bindings |-> b, slot |-> b[id]]
    ELSE [globals |-> Append(gs, value), bindings |-> (id :> Len(gs)) @@ b, slot |-> Len(gs)]

\* InterpSess::get_global
get_global(b, id) == IF id \in DOMAIN b THEN Some(b[id]) ELSE None

\* push_const: let slot = self.interp.constants.len()
push_const_slot(st) == Len(st.constants)

push_const_in_place(st, value) ==
    [constants |-> [st.constants EXCEPT ![Len(st.constants)] = value],
     code |-> code_push(st.code, Inst("PushConst", Len(st.constants) - 1))]
push_const(st, value) ==
    [constants |-> Append(st.constants, value),
     code |-> code_push(st.code, Inst("PushConst", Len(st.constants)))]

push_const_unit(st) == [st EXCEPT !.code = code_push(@, Inst("PushConst", 0))]

RECURSIVE init_loop(_, _, _, _)
init_loop(cs, egs, i, init_instructions) ==
    IF i > Len(egs) THEN [constants |-> cs, init_instructions |-> init_instructions]
    ELSE LET const_slot == Len(cs)
             fn == Function(<<"global_init", i - 1>>, <<>>, egs[i])
         IN init_loop(Append(cs, Value_Func(fn)), egs, i + 1,
                      init_instructions \o <<Inst("PushConst", const_slot), Inst("Call", 0)>>)

insert_init_instructions_after(cs, egs, code) ==
    LET r == init_loop(cs, egs, 1, <<>>)
    IN [constants |-> r.constants,
        code |-> [code EXCEPT !.instructions = @ \o r.init_instructions]]
insert_init_instructions(cs, egs, code) ==
    LET r == init_loop(cs, egs, 1, <<>>)
    IN [constants |-> r.constants,
        code |-> [code EXCEPT !.instructions = r.init_instructions \o @]]

----------------------------------------------------------------------------
(* VM: frames *)

StackFrame_new(func, slot) == [func |-> func, stack_slot |-> slot, ip |-> 0]

\* StackFrame::func: the frame's func pointer designates the Func held by the
\* operand-stack cell the callee value sits in
StackFrame_func(s, fr) == stack_get(s, fr.func).v

push_frame_slot_off(s) == stack_len(s)
push_frame_slot(s) == stack_len(s) - 1

push_frame_late_slot(s, fs, func) ==
    LET locals == stack_get(s, func).v.code.locals
        s1 == s \o Units(locals)
        fs1 == Append(fs, StackFrame_new(func, push_frame_slot(s1)))
    IN [stack |-> s1, frames |-> fs1, frame |-> Len(fs1),
        overflow |-> stack_overflow(s, locals, STACK_MAX) \/ stack_overflow(fs, 1, FRAMES_MAX)]
push_frame_unbounded(s, fs, func) ==
    LET stack_slot == push_frame_slot(s)
        locals == stack_get(s, func).v.code.locals
        s1 == s \o Units(locals)
        fs1 == Append(fs, StackFrame_new(func, stack_slot))
    IN [stack |-> s1, frames |-> fs1, frame |-> Len(fs1),
        overflow |-> stack_overflow(s, locals, STACK_MAX)]
push_frame_one_more(s, fs, func) ==
    LET stack_slot == push_frame_slot(s)
        locals == stack_get(s, func).v.code.locals
        s1 == s \o Units(locals)
        fs1 == Append(fs, StackFrame_new(func, stack_slot))
    IN [stack |-> s1, frames |-> fs1, frame |-> Len(fs1),
        overflow |-> stack_overflow(s, locals, STACK_MAX) \/ stack_overflow(fs, 0, FRAMES_MAX)]
push_frame(s, fs, func) ==
    LET stack_slot == push_frame_slot(s)
        locals == stack_get(s, func).v.code.locals
        s1 == s \o Units(locals)
        fs1 == Append(fs, StackFrame_new(func, stack_slot))
    IN [stack |-> s1, frames |-> fs1, frame |-> Len(fs1),
        overflow |-> stack_overflow(s, locals, STACK_MAX) \/ stack_overflow(fs, 1, FRAMES_MAX)]

VM_new_on_previous == [stack |-> stack, frames |-> frames, frame |-> frame]
\* VM::new: Stack::new() twice and a null frame pointer
VM_new == [stack |-> <<>>, frames |-> <<>>, frame |-> 0]

\* InterpSess::create_vm
create_vm == VM_new

run_func(vm, func) ==
    LET s == stack_push(vm.stack, Value_Func(func))
    IN push_frame(s, vm.frames, stack_len(s) - 1)

\* VM::next and VM::jmp act on the frame the cached pointer f designates
next(fs, f) == [fs EXCEPT ![f].ip = @ + 1]

get_const_defined(addr) == addr < Len(constants)
get_const(addr) == constants[addr + 1]

----------------------------------------------------------------------------
(* Inputs: the expressions handed to eval, as the lowering pass emits them. *)
(* A call pushes the arguments in order, then the callee, then Call(argc);  *)
(* parameter k (1-based) of an argc-parameter function is frame-relative    *)
(* slot k - 1 - argc.                                                       *)

Scn(kind, a, b, pre, argc, locals, temps, nested, slot) ==
    [kind |-> kind, a |-> a, b |-> b, pre |-> pre, argc |-> argc,
     locals |-> locals, temps |-> temps, nested |-> nested, slot |-> slot]

\* a callee that stores into frame-relative slot n, then reads slot m
LocalScenarios ==
    {[kind |-> "local", pre |-> p[1], argc |-> p[2], locals |-> p[3], n |-> p[4], m |-> p[5]] :
        p \in {q \in (0..MaxPre) \X (0..MaxArgs) \X (0..MaxLocals)
                      \X ((0 - MaxArgs)..MaxLocals) \X ((0 - MaxArgs)..MaxLocals) :
                  /\ q[4] # 0 /\ 0 - q[2] <= q[4] /\ q[4] <= q[3]
                  /\ 0 - q[2] <= q[5] /\ q[5] <= q[3]}}

ArithInsts == {"Add", "Sub", "Mul", "Div", "Rem"}
CompInsts == {"Eq", "Neq", "Lt", "LtEq", "Gt", "GtEq"}

\* operand payloads by variant, written as integers: the payload itself for an
\* integer variant, a count of quarters for a float, 0 / 1 for a Bool
NarrowOperandTags == {"I8", "I16", "U8", "U16"}
WideOperandTags == {"I32", "I64", "Int", "U32", "U64", "Uint"}
FloatOperandTags == {"F32", "F64"}
SignedOperandTags == {"I8", "I16", "I32", "I64", "Int"}
OperandMin(tag) ==
    CASE tag = "I8" -> -128 [] tag = "I16" -> -32768 [] OTHER -> 0
OperandMax(tag) ==
    CASE tag = "I8" -> 127 [] tag = "I16" -> 32767 [] tag = "U8" -> 255 [] OTHER -> 65535
OperandsA(tag) ==
    CASE tag \in NarrowOperandTags -> {OperandMin(tag), 0, 5, OperandMax(tag)}
      [] tag \in WideOperandTags -> {5, 100}
      [] OTHER -> {0, 2, 4, -4}
OperandsB(tag) ==
    CASE tag \in FloatOperandTags -> {0, 2, 4, -4}
      [] tag \in SignedOperandTags -> {0, 3, -1}
      [] OTHER -> {0, 3, 1}

BinOp(op, ta, a, tb, b) == [kind |-> "binop", op |-> op, ta |-> ta, a |-> a, tb |-> tb, b |-> b]

\* a op b on two operands of one numeric variant
ArithScenarios ==
    UNION {{BinOp(op, t, a, t, b) : op \in ArithInsts, a \in OperandsA(t), b \in OperandsB(t)} :
             t \in NarrowOperandTags \cup WideOperandTags \cup FloatOperandTags}

\* a comparison of two operands of one variant
CompScenarios ==
    {BinOp(op, t, a, t, b) : op \in CompInsts, t \in {"Bool", "I8", "Uint", "F64"},
                             a \in {0, 1}, b \in {0, 1}}

\* operands of two different variants
MismatchedOperands ==
    {<<"I8", "I16">>, <<"I32", "U32">>, <<"Int", "I64">>, <<"U8", "Uint">>,
     <<"Int", "Bool">>, <<"Bool", "U8">>, <<"F32", "F64">>, <<"Int", "F64">>}
MismatchScenarios ==
    {BinOp(op, p[1], 1, p[2], 1) : op \in ArithInsts \cup CompInsts, p \in MismatchedOperands}

\* if (cond) jump: a conditional jump over one arm of a two-armed expression
JumpOffsets == {3, 9, -9}
JumpScenarios ==
    {[kind |-> "jump", op |-> op, cond |-> c, offset |-> o] :
        op \in {"Jmpt", "Jmpf"}, c \in BOOLEAN, o \in JumpOffsets}

\* an assignment whose pointer is pushed before its value
PointerFirstScenarios ==
    {[kind |-> "ptr_first", slot |-> slot] : slot \in 0..(NumGlobals - 1)}

\* a call whose Call operand need not be the callee's declared parameter count
CallOperandScenarios ==
    {[kind |-> "callop", pre |-> p, argc |-> n, operand |-> o] :
        p \in 0..MaxPre, n \in 0..MaxArgs, o \in 0..MaxArgs}

\* an unconditional jump over, onto or back from itself
JmpOffsets == {-1, 0, 1}
JmpScenarios == {[kind |-> "jmp", offset |-> o] : o \in JmpOffsets}

\* code that ends the run before the entry function's final Halt: a Return in
\* the entry function, or a Halt inside a callee (nested depth-1 calls deep)
EndScenarios ==
    {[kind |-> "end", by |-> "Return", depth |-> 1]}
    \cup {[kind |-> "end", by |-> "Halt", depth |-> d] : d \in 2..3}

\* global slot = 7; global j, the slot possibly one past the last global
SetGlobalScenarios ==
    {[kind |-> "setg", slot |-> k, j |-> j] : k \in 0..NumGlobals, j \in 0..(NumGlobals - 1)}

\* -a, for an operand a of each variant Neg is specified for (and one it is not)
NegScenarios ==
    {[kind |-> "neg", tag |-> t, a |-> a] :
        t \in SignedOperandTags \cup FloatOperandTags \cup {"Bool"}, a \in {0, 1, -3}}

\* global slot = a; global slot += 1 through a pointer; global slot
IncrementScenarios ==
    {[kind |-> "incr", tag |-> t, a |-> a, slot |-> k] :
        t \in NarrowOperandTags \cup WideOperandTags \cup FloatOperandTags \cup {"Bool"},
        a \in {0, 1}, k \in 0..(NumGlobals - 1)}
    \cup {[kind |-> "incr", tag |-> t, a |-> OperandMax(t), slot |-> 0] : t \in NarrowOperandTags}

\* a later top-level expression, global slot, evaluated after the expression
\* `after` on the same Interp
GetGlobalAfter(after) ==
    {[kind |-> "getg", slot |-> k, after |-> after] : k \in 0..(NumGlobals - 1)}
RECURSIVE Runs(_)
Runs(s) == IF "after" \in DOMAIN s THEN 1 + Runs(s.after) ELSE 1
\* the expressions a later expression is evaluated after: those about globals
FollowedKinds == {"setg", "gptr", "getg"}

\* an expression whose lowering is followed call by call: budget is the number
\* of calls into the session the lowering pass still makes
\* add_local calls already made on the code being lowered: none, and as many
\* as bring the next calls to the end of the i16 and of the u16 range
AddLocalCalls == {0, Pow2(15) - 2, Pow2(16) - 2}
StepScenarios ==
    {s \in [kind : {"steps"}, budget : 1..MaxSteps, calls : AddLocalCalls] :
        s.calls # 0 => s.budget <= 2}
StepValues == {Value_Int(5), Value_Bool(TRUE)}
GlobalIds == 1..MaxIds
GlobalValues == {Value_Int(1), Value_Int(2)}

\* a program that jumps back to an instruction it has executed
LoopScenarios == {[kind |-> "loop", by |-> op] : op \in {"Jmpt", "Jmpf"}}

\* a function of the given number of locals that unconditionally calls itself
RecursionLocals == {0, 271, 300}
RecurseScenarios == {[kind |-> "recurse", locals |-> l] : l \in RecursionLocals}

\* an aggregate of n elements built element by element, then indexed at i
AggScenarios ==
    {[kind |-> "agg", n |-> n, i |-> i] : n \in 1..MaxAgg, i \in 0..(MaxAgg - 1)}

Scenarios ==
    {Scn("add", a, b, 0, 0, 0, 0, 0, 0) : a \in Vals, b \in Vals}
    \cup {Scn("lt", a, b, 0, 2, 0, 0, 0, 0) : a \in Vals, b \in Vals}
    \cup {Scn("call", 0, 0, p[1], p[2], p[3], p[4], p[5], 0) :
            p \in (0..MaxPre) \X (0..MaxArgs) \X (0..MaxLocals) \X (0..MaxTemps) \X {0, 1}}
    \cup {Scn("foreign", 0, 0, p[1], p[2], 0, 0, 0, 0) : p \in (0..MaxPre) \X (0..MaxArgs)}
    \cup {Scn("uncallable", a, 0, 0, argc, 0, 0, 0, 0) : a \in {0, 1, 2}, argc \in 0..MaxArgs}
    \cup {Scn("gptr", a, 0, 0, 0, 0, 0, 0, slot) : a \in Vals, slot \in 0..(NumGlobals - 1)}
    \cup LocalScenarios
    \cup {s \in AggScenarios : s.i < s.n}
    \cup ArithScenarios \cup CompScenarios \cup MismatchScenarios
    \cup JumpScenarios
    \cup JmpScenarios
    \cup CallOperandScenarios
    \cup PointerFirstScenarios
    \cup EndScenarios
    \cup RecurseScenarios
    \cup LoopScenarios
    \cup SetGlobalScenarios
    \cup StepScenarios
    \cup NegScenarios
    \cup IncrementScenarios

\* programs whose every call returns and whose entry function ends in Halt
WellFormed(s) == s.kind \in {"add", "lt", "call", "foreign", "gptr", "local", "agg"}

ArgValue(k) == Value_Int(10 * k)
PreValue == Value_Bool(TRUE)
TempValue == Value_Bool(FALSE)
RetValue == Value_Int(99)
ForeignPuts == Value_ForeignFunc([lib |-> "libc", name |-> "puts"])
UncallableValue(a) ==
    CASE a = 0 -> Value_Int(0) [] a = 1 -> Value_Bool(TRUE) [] OTHER -> Value_unit
InitGlobals == [i \in 1..NumGlobals |-> Value_Int(100 * i)]
\* the table once binding i has been inserted as the i-th global
InitBindings == [i \in 1..NumGlobals |-> i - 1]
InitCode(i) ==
    [instructions |-> <<Inst("PushConst", 0), Inst("Return", 0)>>, locals |-> i - 1]
ArgTypes(n) == [k \in 1..n |-> "int"]
FfiOutcomes == {Value_Int(1), Value_unit, NoValue}   \* NoValue: the boundary aborts

RECURSIVE PushConstSeq(_, _)
PushConstSeq(st, vals) ==
    IF vals = <<>> THEN st ELSE PushConstSeq(push_const(st, Head(vals)), Tail(vals))

Emit(st, inst) == [st EXCEPT !.code = code_push(@, inst)]

\* fn(a, b) = a < b
LtFunction ==
    Function("lt", ArgTypes(2),
             [instructions |-> <<Inst("Peek", -2), Inst("Peek", -1), Inst("Lt", 0),
                                 Inst("Return", 0)>>,
              locals |-> 0])

\* fn(x) = x, with one local
IdFunction ==
    Function("id", ArgTypes(1),
             [instructions |-> <<Inst("Peek", -1), Inst("Return", 0)>>, locals |-> 1])

\* the body of the function the "call" scenario calls
CalleeBody(cs, s) ==
    LET b0 == [constants |-> cs, code |-> [CompiledCode_new EXCEPT !.locals = s.locals]]
        b1 == PushConstSeq(b0, [k \in 1..s.temps |-> TempValue])
        b2 == IF s.nested = 1
              THEN Emit(push_const(push_const(b1, ArgValue(1)), Value_Func(IdFunction)),
                        Inst("Call", 1))
              ELSE b1
    IN Emit(push_const(b2, RetValue), Inst("Return", 0))

StoredValue == Value_Int(7)

\* fn(args) { slot n = 7; slot m }
LowerLocal(st0, s) ==
    LET st1 == PushConstSeq(st0, [k \in 1..s.pre |-> PreValue])
        st2 == PushConstSeq(st1, [k \in 1..s.argc |-> ArgValue(k)])
        b0 == [constants |-> st2.constants,
               code |-> [CompiledCode_new EXCEPT !.locals = s.locals]]
        b1 == Emit(Emit(Emit(push_const(b0, StoredValue), Inst("SetLocal", s.n)),
                        Inst("Peek", s.m)),
                   Inst("Return", 0))
        fn == Function("g", ArgTypes(s.argc), b1.code)
        st3 == push_const([constants |-> b1.constants, code |-> st2.code], Value_Func(fn))
    IN Emit(st3, Inst("Call", s.argc))

\* the operand a scenario writes as the integer n
Operand(tag, n) ==
    [tag |-> tag,
     v |-> CASE tag \in FloatOperandTags -> [k |-> "fin", q |-> n]
             [] tag = "Bool" -> (n = 1)
             [] OTHER -> n]

LowerBinOp(st0, s) ==
    Emit(PushConstSeq(st0, <<Operand(s.ta, s.a), Operand(s.tb, s.b)>>), Inst(s.op, 0))

FallThroughValue == Value_Int(11)
JumpedValue == Value_Int(22)

\* 0: cond  1: Jmpt/Jmpf(offset)  2: 11  3: Jmp(2)  4: 22  5: (Halt)
LowerJump(st0, s) ==
    LET st1 == Emit(push_const(st0, Value_Bool(s.cond)), Inst(s.op, s.offset))
        st2 == Emit(push_const(st1, FallThroughValue), Inst("Jmp", 2))
    IN push_const(st2, JumpedValue)

\* 0: 22  1: Jmp(2)  2: Halt  3: Jmp(offset)  4: (Halt)
LowerJmp(st0, s) ==
    Emit(Emit(Emit(push_const(st0, JumpedValue), Inst("Jmp", 2)), Inst("Halt", 0)),
         Inst("Jmp", s.offset))

\* pre values, argc arguments, fn(argc parameters) { 99 }, Call(operand)
LowerCallOperand(st0, s) ==
    LET st1 == PushConstSeq(st0, [k \in 1..s.pre |-> PreValue])
        st2 == PushConstSeq(st1, [k \in 1..s.argc |-> ArgValue(k)])
        body == Emit(push_const([constants |-> st2.constants, code |-> CompiledCode_new],
                                RetValue),
                     Inst("Return", 0))
        fn == Function("f", ArgTypes(s.argc), body.code)
        st3 == push_const([constants |-> body.constants, code |-> st2.code], Value_Func(fn))
    IN Emit(st3, Inst("Call", s.operand))

LowerPointerFirst(st0, s) ==
    Emit(Emit(push_const(Emit(st0, Inst("GetGlobalPtr", s.slot)), StoredValue),
              Inst("Assign", 0)),
         Inst("GetGlobal", s.slot))

\* loop {}: a condition pushed and a conditional jump back to the push
LowerLoop(st0, s) ==
    Emit(push_const(st0, Value_Bool(s.by = "Jmpt")), Inst(s.by, -1))

LowerSetGlobal(st0, s) ==
    Emit(Emit(push_const(st0, StoredValue), Inst("SetGlobal", s.slot)), Inst("GetGlobal", s.j))

LowerNeg(st0, s) == Emit(push_const(st0, Operand(s.tag, s.a)), Inst("Neg", 0))

LowerIncrement(st0, s) ==
    Emit(Emit(Emit(Emit(push_const(st0, Operand(s.tag, s.a)), Inst("SetGlobal", s.slot)),
                   Inst("GetGlobalPtr", s.slot)),
              Inst("Increment", 0)),
         Inst("GetGlobal", s.slot))

EndValue == Value_Int(33)

\* a function of no parameters that calls inner, then returns
CallerOf(cs, inner) ==
    LET b1 == Emit(push_const([constants |-> cs, code |-> CompiledCode_new], Value_Func(inner)),
                   Inst("Call", 0))
    IN [b1 EXCEPT !.code = code_push(@, Inst("Return", 0))]

LowerEnd(st0, s) ==
    IF s.by = "Return"
    THEN Emit(push_const(st0, EndValue), Inst("Return", 0))
    ELSE LET h == Emit(push_const([constants |-> st0.constants, code |-> CompiledCode_new],
                                  EndValue),
                       Inst("Halt", 0))
             halting == Function("halting", <<>>, h.code)
             mid == CallerOf(h.constants, halting)
             callee == IF s.depth = 2 THEN halting ELSE Function("mid", <<>>, mid.code)
             cs == IF s.depth = 2 THEN h.constants ELSE mid.constants
         IN Emit(push_const([constants |-> cs, code |-> st0.code], Value_Func(callee)),
                 Inst("Call", 0))

\* fn rec() { rec() }: the function is the constant its own code pushes
LowerRecurse(st0, s) ==
    LET self == Len(st0.constants)
        body == [instructions |-> <<Inst("PushConst", self), Inst("Call", 0),
                                    Inst("Return", 0)>>,
                 locals |-> s.locals]
    IN Emit(push_const(st0, Value_Func(Function("rec", <<>>, body))), Inst("Call", 0))

ElemValue(k) == Value_Int(20 + k)

RECURSIVE PushElems(_, _, _)
PushElems(st, k, n) ==
    IF k = n THEN st
    ELSE PushElems(Emit(push_const(st, ElemValue(k)), Inst("AggregatePush", 0)), k + 1, n)

\* (e0, .., e(n-1)).i
LowerAgg(st0, s) ==
    Emit(PushElems(Emit(st0, Inst("AggregateAlloc", 0)), 0, s.n), Inst("ConstIndex", s.i))

Lower(s) ==
    LET st0 == [constants |-> constants, code |-> lowered_code]
    IN CASE s.kind = "steps" -> st0
         [] s.kind = "add" ->
              Emit(PushConstSeq(st0, <<Value_Int(s.a), Value_Int(s.b)>>), Inst("Add", 0))
         [] s.kind = "lt" ->
              Emit(PushConstSeq(st0, <<Value_Int(s.a), Value_Int(s.b), Value_Func(LtFunction)>>),
                   Inst("Call", 2))
         [] s.kind = "call" ->
              LET st1 == PushConstSeq(st0, [k \in 1..s.pre |-> PreValue])
                  st2 == PushConstSeq(st1, [k \in 1..s.argc |-> ArgValue(k)])
                  body == CalleeBody(st2.constants, s)
                  fn == Function("f", ArgTypes(s.argc), body.code)
                  st3 == push_const([constants |-> body.constants, code |-> st2.code],
                                    Value_Func(fn))
              IN Emit(st3, Inst("Call", s.argc))
         [] s.kind = "foreign" ->
              LET st1 == PushConstSeq(st0, [k \in 1..s.pre |-> PreValue])
                  st2 == PushConstSeq(st1, [k \in 1..s.argc |-> ArgValue(k)])
              IN Emit(push_const(st2, ForeignPuts), Inst("Call", s.argc))
         [] s.kind = "local" -> LowerLocal(st0, s)
         [] s.kind = "agg" -> LowerAgg(st0, s)
         [] s.kind = "recurse" -> LowerRecurse(st0, s)
         [] s.kind = "loop" -> LowerLoop(st0, s)
         [] s.kind = "setg" -> LowerSetGlobal(st0, s)
         [] s.kind = "getg" -> Emit(st0, Inst("GetGlobal", s.slot))
         [] s.kind = "neg" -> LowerNeg(st0, s)
         [] s.kind = "incr" -> LowerIncrement(st0, s)
         [] s.kind = "end" -> LowerEnd(st0, s)
         [] s.kind = "jump" -> LowerJump(st0, s)
         [] s.kind = "jmp" -> LowerJmp(st0, s)
         [] s.kind = "callop" -> LowerCallOperand(st0, s)
         [] s.kind = "ptr_first" -> LowerPointerFirst(st0, s)
         [] s.kind = "binop" -> LowerBinOp(st0, s)
         [] s.kind = "uncallable" ->
              Emit(push_const(st0, UncallableValue(s.a)), Inst("Call", s.argc))
         [] OTHER ->
              Emit(Emit(Emit(push_const(st0, Value_Int(s.a)), Inst("GetGlobalPtr", s.slot)),
                        Inst("Assign", 0)),
                   Inst("GetGlobal", s.slot))

----------------------------------------------------------------------------
\* Env::default()
Env_default == <<>>

\* n as i16, for a u16 n
as_i16(n) == IF n >= Pow2(15) THEN n - Pow2(16) ELSE n

(* Init: Interp::new, then the session's globals and evaluated_globals.    *)

\* how many globals were evaluated before the expression; a lowering followed
\* call by call runs after at most one
InitCounts(s) == IF s.kind = "steps" THEN {0, 1} ELSE 0..MaxInits

Init ==
    /\ constants = Interp_new_constants
    /\ scn \in Scenarios
    /\ IF scn.kind = "steps"
       THEN globals = <<>> /\ bindings_to_globals = Interp_new_bindings
       ELSE globals = InitGlobals /\ bindings_to_globals = InitBindings
    /\ IF scn.kind = "steps"
       THEN /\ lowered_code = [CompiledCode_new EXCEPT !.locals = scn.calls]
            /\ env = IF scn.calls = 0 THEN Env_default ELSE (1 :> as_i16(scn.calls))
       ELSE lowered_code = CompiledCode_new /\ env = Env_default
    /\ \E n \in InitCounts(scn) : evaluated_globals = [i \in 1..n |-> InitCode(i)]
    /\ CheckSess_new
    /\ stack = <<>>
    /\ frames = <<>>
    /\ frame = 0
    /\ status = "session"
    /\ result = NoValue
    /\ ffi_values = <<>>
    /\ push_frame_calls = 0
    /\ returns_executed = 0
    /\ last = Inst("None", 0)

\* InterpSess::eval: lower, append Halt, prepend the global initializers, run
eval ==
    /\ status = "session"
    /\ LET lowered == Lower(scn)
           start_code == code_push(lowered.code, Inst("Halt", 0))
           ins == insert_init_instructions(lowered.constants, evaluated_globals, start_code)
           start_func == Function("__vm_start", <<>>, ins.code)
           vm == run_func(create_vm, start_func)
       IN /\ constants' = ins.constants
          /\ IF vm.overflow
             \* the start function's locals do not fit the operand stack
             THEN /\ stack' = stack_push(create_vm.stack, Value_Func(start_func))
                  /\ frames' = create_vm.frames
                  /\ frame' = create_vm.frame
                  /\ status' = "panicked"
             ELSE /\ stack' = vm.stack
                  /\ frames' = vm.frames
                  /\ frame' = vm.frame
                  /\ status' = "running"
    /\ env' = Env_default
    /\ push_frame_calls' = push_frame_calls + 1
    /\ last' = Inst("run_func", 0)
    /\ UNCHANGED <<globals, evaluated_globals, scn, result, ffi_values, returns_executed,
                   bindings_to_globals, lowered_code, CheckVars>>

\* the lowering pass is inside eval and calls into the session
Lowering == status = "session" /\ scn.kind = "steps" /\ scn.budget > 0
Lowered ==
    /\ scn' = [scn EXCEPT !.budget = @ - 1]
    /\ UNCHANGED <<evaluated_globals, stack, frames, frame, status, result, ffi_values,
                   push_frame_calls, returns_executed, env, CheckVars>>

lower_push_const ==
    /\ Lowering
    /\ \E value \in StepValues :
          LET st0 == [constants |-> constants, code |-> lowered_code]
              st == push_const(st0, value)
          IN /\ constants' = st.constants
             /\ lowered_code' = st.code
             /\ last' = [op |-> "push_const", arg |-> push_const_slot(st0), value |-> value]
    /\ Lowered
    /\ UNCHANGED <<globals, bindings_to_globals>>

lower_push_const_unit ==
    /\ Lowering
    /\ lowered_code' = push_const_unit([constants |-> constants, code |-> lowered_code]).code
    /\ last' = [op |-> "push_const_unit", arg |-> 0]
    /\ Lowered
    /\ UNCHANGED <<constants, globals, bindings_to_globals>>

lower_insert_global ==
    /\ Lowering
    /\ \E id \in GlobalIds, value \in GlobalValues :
          LET r == insert_global(globals, bindings_to_globals, id, value)
          IN /\ globals' = r.globals
             /\ bindings_to_globals' = r.bindings
             /\ last' = [op |-> "insert_global", arg |-> r.slot, id |-> id, value |-> value]
    /\ Lowered
    /\ UNCHANGED <<constants, lowered_code>>

lower_get_global ==
    /\ Lowering
    /\ \E id \in GlobalIds :
          last' = [op |-> "get_global", arg |-> 0, id |-> id,
                   ret |-> get_global(bindings_to_globals, id)]
    /\ Lowered
    /\ UNCHANGED <<constants, globals, bindings_to_globals, lowered_code>>

\* Interp::create_session for the next top-level expression, once the run of
\* the previous one has returned: the Interp is kept, the VM is not
create_session ==
    /\ status = "returned"
    /\ scn.kind \in FollowedKinds
    /\ Runs(scn) < MaxRuns
    /\ scn' \in GetGlobalAfter(scn)
    /\ evaluated_globals' = <<>>
    /\ status' = "session"
    /\ last' = Inst("create_session", 0)
    /\ lowered_code' = CompiledCode_new
    /\ UNCHANGED <<constants, globals, stack, frames, frame, result, ffi_values,
                   push_frame_calls, returns_executed, bindings_to_globals, env, CheckVars>>

----------------------------------------------------------------------------
(* VM::run_inner: one action per instruction *)

CurFrame == frames[frame]                        \* VM::frame()
CurFunc == StackFrame_func(stack, CurFrame)      \* frame.func()
CurCode == CurFunc.code.instructions
CurInst == CurCode[CurFrame.ip + 1]

Builds == {"checked", "unchecked"}   \* overflow checks of the build: on (dev), off (release)

\* InterpSess::add_local: code.locals += 1 on a u16, which a build with
\* overflow checks aborts at u16::MAX and any other build wraps to 0, then
\* env_mut().insert(id, code.locals as i16)
add_local(code, e, id, build) ==
    LET overflows == code.locals + 1 >= Pow2(16)
        locals == IF overflows THEN 0 ELSE code.locals + 1
    IN IF overflows /\ build = "checked"
       THEN [panics |-> TRUE, code |-> code, env |-> e]
       ELSE [panics |-> FALSE,
             code |-> [code EXCEPT !.locals = locals],
             env |-> (id :> as_i16(locals)) @@ e]

lower_add_local ==
    /\ Lowering
    /\ \E id \in GlobalIds, build \in Builds :
          LET r == add_local(lowered_code, env, id, build)
          IN /\ lowered_code' = r.code
             /\ env' = r.env
             /\ status' = IF r.panics THEN "panicked" ELSE status
             /\ last' = [op |-> "add_local", arg |-> 0, id |-> id]
    /\ scn' = [scn EXCEPT !.budget = @ - 1, !.calls = @ + 1]
    /\ UNCHANGED <<constants, globals, bindings_to_globals, evaluated_globals, stack, frames,
                   frame, result, ffi_values, push_frame_calls, returns_executed, CheckVars>>

TraceLevels == {"None", "Minimal", "Full"}

trace_consuming(vm, level, build) ==
    [aborts |-> FALSE,
     vm |-> IF level = "Full" THEN [vm EXCEPT !.stack = stack_popped(@)] ELSE vm]
\* VM::trace(&self, inst, level): prints, and returns the VM as it found it.
\* Full colours the cells from frame_slot - arg_types.len() up, a usize
\* subtraction evaluated for every cell other than the frame's own.
trace(vm, level, build) ==
    LET fr == vm.frames[vm.frame]
        func == StackFrame_func(vm.stack, fr)
        underflows ==
            /\ fr.stack_slot < Len(func.arg_types)
            /\ \E cell \in 0..(Len(vm.stack) - 1) : cell # fr.stack_slot
    IN [aborts |-> level = "Full" /\ underflows /\ build = "checked", vm |-> vm]

\* run_inner: self.trace(&inst, TraceLevel::None)
Traced ==
    LET vm == [stack |-> stack, frames |-> frames, frame |-> frame]
    IN \A build \in Builds :
          ~trace(vm, "None", build).aborts /\ trace(vm, "None", build).vm = vm

AtInst(op) ==
    /\ status = "running"
    /\ CurFrame.ip >= 0 /\ CurFrame.ip < Len(CurCode)
    /\ CurInst.op = op

Step(op) ==
    /\ AtInst(op)
    /\ Traced
    /\ last' = CurInst
    /\ UNCHANGED <<constants, evaluated_globals, scn, bindings_to_globals, lowered_code, env,
                   CheckVars>>

Go(s, fs, f) ==
    /\ stack' = s
    /\ frames' = fs
    /\ frame' = f
    /\ status' = "running"
    /\ UNCHANGED result

Panic(s, fs) ==
    /\ stack' = s
    /\ frames' = fs
    /\ status' = "panicked"
    /\ UNCHANGED <<frame, result>>

Break(s, fs, v) ==
    /\ stack' = s
    /\ frames' = fs
    /\ status' = "returned"
    /\ result' = v
    /\ UNCHANGED frame

Keep == UNCHANGED <<globals, ffi_values, push_frame_calls, returns_executed>>

SignedTags == {"I8", "I16", "I32", "I64", "Int"}
UnsignedTags == {"U8", "U16", "U32", "U64", "Uint"}
IntTags == SignedTags \cup UnsignedTags
FloatTags == {"F32", "F64"}
NumericTags == IntTags \cup FloatTags

Bits(tag) ==
    CASE tag \in {"I8", "U8"} -> 8
      [] tag \in {"I16", "U16"} -> 16
      [] tag \in {"I32", "U32", "F32"} -> 32
      [] OTHER -> 64


\* the 8- and 16-bit variants are computed over their whole range; payloads of
\* the 32- and 64-bit variants are drawn far from their bounds, where the
\* native result is the exact one
NarrowTags == {tag \in IntTags : Bits(tag) <= 16}
TagMin(tag) == IF tag \in SignedTags THEN 0 - Pow2(Bits(tag) - 1) ELSE 0
TagMax(tag) == IF tag \in SignedTags THEN Pow2(Bits(tag) - 1) - 1 ELSE Pow2(Bits(tag)) - 1
in_range(tag, r) == tag \in NarrowTags => (TagMin(tag) <= r /\ r <= TagMax(tag))
wrap(tag, r) ==
    IF tag \in NarrowTags
    THEN ((r - TagMin(tag)) % Pow2(Bits(tag))) + TagMin(tag)
    ELSE r

abs(n) == IF n < 0 THEN 0 - n ELSE n
\* Rust's integer / and %: the quotient is truncated toward zero
tdiv(a, b) ==
    IF (a >= 0) = (b > 0) THEN abs(a) \div abs(b) ELSE 0 - (abs(a) \div abs(b))
trem(a, b) == a - b * tdiv(a, b)

\* f32 / f64 payloads: a finite value is a count q of quarters (every value
\* drawn and every result is exactly representable in both widths), an
\* infinity carries its sign in q
FloatFin(q) == [k |-> "fin", q |-> q]
FloatInf(sign) == [k |-> "inf", q |-> sign]
FloatNaN == [k |-> "nan", q |-> 0]
sign_of(q) == IF q < 0 THEN -1 ELSE 1
fneg(a) == IF a.k = "nan" THEN a ELSE [a EXCEPT !.q = 0 - @]
fadd(a, b) ==
    CASE a.k = "nan" \/ b.k = "nan" -> FloatNaN
      [] a.k = "fin" /\ b.k = "fin" -> FloatFin(a.q + b.q)
      [] a.k = "inf" /\ b.k = "inf" -> IF a.q = b.q THEN a ELSE FloatNaN
      [] a.k = "inf" -> a
      [] OTHER -> b
fmul(a, b) ==
    CASE a.k = "nan" \/ b.k = "nan" -> FloatNaN
      [] a.k = "fin" /\ b.k = "fin" -> FloatFin((a.q * b.q) \div 4)
      [] (a.k = "fin" /\ a.q = 0) \/ (b.k = "fin" /\ b.q = 0) -> FloatNaN
      [] OTHER -> FloatInf(sign_of(a.q) * sign_of(b.q))
fdiv(a, b) ==
    CASE a.k = "nan" \/ b.k = "nan" -> FloatNaN
      [] a.k = "inf" /\ b.k = "inf" -> FloatNaN
      [] a.k = "inf" -> FloatInf(a.q * sign_of(b.q))
      [] b.k = "inf" -> FloatFin(0)
      [] b.q = 0 -> IF a.q = 0 THEN FloatNaN ELSE FloatInf(sign_of(a.q))
      [] OTHER -> FloatFin((4 * a.q) \div b.q)
frem(a, b) ==
    CASE a.k = "nan" \/ b.k = "nan" \/ a.k = "inf" -> FloatNaN
      [] b.k = "inf" -> a
      [] b.q = 0 -> FloatNaN
      [] OTHER -> FloatFin(trem(a.q, b.q))


int_op(op, a, b) ==
    CASE op = "+" -> a + b
      [] op = "-" -> a - b
      [] OTHER -> a * b

int_div_faults_zero_only(tag, a, b) == b = 0
int_div_faults_any_zero(tag, a, b) == a = 0 \/ b = 0
\* integer / and %: a zero divisor and MIN / -1 panic in every build
int_div_faults(tag, a, b) ==
    \/ b = 0
    \/ (tag \in SignedTags /\ tag \in NarrowTags /\ a = TagMin(tag) /\ b = -1)

\* a $op b on two payloads of the variant tag; ok = FALSE is a panic
native(op, tag, a, b, build) ==
    IF tag \in FloatTags
    THEN [ok |-> TRUE,
          v |-> CASE op = "+" -> fadd(a, b)
                  [] op = "-" -> fadd(a, fneg(b))
                  [] op = "*" -> fmul(a, b)
                  [] op = "/" -> fdiv(a, b)
                  [] OTHER -> frem(a, b)]
    ELSE IF op \in {"/", "%"}
    THEN IF int_div_faults(tag, a, b) THEN [ok |-> FALSE, v |-> 0]
         ELSE [ok |-> TRUE, v |-> IF op = "/" THEN tdiv(a, b) ELSE trem(a, b)]
    ELSE LET r == int_op(op, a, b)
         IN IF in_range(tag, r) THEN [ok |-> TRUE, v |-> r]
            ELSE IF build = "checked" THEN [ok |-> FALSE, v |-> 0]
            ELSE [ok |-> TRUE, v |-> wrap(tag, r)]

operands_match_widening(a, b, tags) ==
    \/ (a.tag = b.tag /\ a.tag \in tags)
    \/ (a.tag \in IntTags /\ b.tag \in IntTags)
\* binary_op! / comp_op!: the match arms pair equal variants only
operands_match(a, b, tags) == a.tag = b.tag /\ a.tag \in tags

binary_op_swapped(op, s, build) ==
    LET a == stack_top(s)
        b == stack_top(stack_popped(s))
        s2 == stack_popped(stack_popped(s))
    IN IF operands_match(a, b, NumericTags)
       THEN LET r == native(op, a.tag, a.v, b.v, build)
            IN IF r.ok THEN [ok |-> TRUE, stack |-> stack_push(s2, [tag |-> a.tag, v |-> r.v])]
               ELSE [ok |-> FALSE, stack |-> s2]
       ELSE [ok |-> FALSE, stack |-> s2]
\* binary_op!: b is popped first, then a
binary_op(op, s, build) ==
    LET b == stack_top(s)
        a == stack_top(stack_popped(s))
        s2 == stack_popped(stack_popped(s))
    IN IF operands_match(a, b, NumericTags)
       THEN LET r == native(op, a.tag, a.v, b.v, build)
            IN IF r.ok THEN [ok |-> TRUE, stack |-> stack_push(s2, [tag |-> a.tag, v |-> r.v])]
               ELSE [ok |-> FALSE, stack |-> s2]
       ELSE [ok |-> FALSE, stack |-> s2]

\* the order of a payload among the payloads of its own variant
ord(value) ==
    CASE value.tag = "Bool" -> (IF value.v THEN 1 ELSE 0)
      [] value.tag \in FloatTags ->
            (IF value.v.k = "inf" THEN value.v.q * 1000000 ELSE value.v.q)
      [] OTHER -> value.v
is_nan(value) == value.tag \in FloatTags /\ value.v.k = "nan"

\* a $op b of comp_op!
compare(op, a, b) ==
    IF is_nan(a) \/ is_nan(b) THEN op = "!="
    ELSE CASE op = "==" -> ord(a) = ord(b)
           [] op = "!=" -> ord(a) # ord(b)
           [] op = "<" -> ord(a) < ord(b)
           [] op = "<=" -> ord(a) <= ord(b)
           [] op = ">" -> ord(a) > ord(b)
           [] OTHER -> ord(a) >= ord(b)

comp_op_swapped(op, s) ==
    LET a == stack_top(s)
        b == stack_top(stack_popped(s))
        s2 == stack_popped(stack_popped(s))
    IN IF operands_match(a, b, NumericTags \cup {"Bool"})
       THEN [ok |-> TRUE, stack |-> stack_push(s2, Value_Bool(compare(op, a, b)))]
       ELSE [ok |-> FALSE, stack |-> s2]
\* comp_op!: b is popped first, then a
comp_op(op, s) ==
    LET b == stack_top(s)
        a == stack_top(stack_popped(s))
        s2 == stack_popped(stack_popped(s))
    IN IF operands_match(a, b, NumericTags \cup {"Bool"})
       THEN [ok |-> TRUE, stack |-> stack_push(s2, Value_Bool(compare(op, a, b)))]
       ELSE [ok |-> FALSE, stack |-> s2]

\* binary_op!(self, op) on the operand stack
Arith(op) ==
    IF Len(stack) < 2
    THEN Panic(<<>>, frames)
    ELSE \E build \in Builds :
            LET r == binary_op(op, stack, build)
            IN IF r.ok THEN Go(r.stack, next(frames, frame), frame)
               ELSE Panic(r.stack, frames)

\* comp_op!(self, op) on the operand stack
Comp(op) ==
    IF Len(stack) < 2
    THEN Panic(<<>>, frames)
    ELSE LET r == comp_op(op, stack)
         IN IF r.ok THEN Go(r.stack, next(frames, frame), frame)
            ELSE Panic(r.stack, frames)

PushConst ==
    /\ Step("PushConst")
    /\ IF ~get_const_defined(CurInst.arg) \/ stack_overflow(stack, 1, STACK_MAX)
       THEN Panic(stack, frames)
       ELSE Go(stack_push(stack, get_const(CurInst.arg)), next(frames, frame), frame)
    /\ Keep

Add ==
    /\ Step("Add")
    /\ Arith("+")
    /\ Keep

Sub ==
    /\ Step("Sub")
    /\ Arith("-")
    /\ Keep

Mul ==
    /\ Step("Mul")
    /\ Arith("*")
    /\ Keep

Div ==
    /\ Step("Div")
    /\ Arith("/")
    /\ Keep

Rem ==
    /\ Step("Rem")
    /\ Arith("%")
    /\ Keep

Eq ==
    /\ Step("Eq")
    /\ Comp("==")
    /\ Keep

Neq ==
    /\ Step("Neq")
    /\ Comp("!=")
    /\ Keep

Lt ==
    /\ Step("Lt")
    /\ Comp("<")
    /\ Keep

LtEq ==
    /\ Step("LtEq")
    /\ Comp("<=")
    /\ Keep

Gt ==
    /\ Step("Gt")
    /\ Comp(">")
    /\ Keep

GtEq ==
    /\ Step("GtEq")
    /\ Comp(">=")
    /\ Keep

halt_result_second(s) == stack_peek(s, 1)
\* Halt: the first pop is the result, the second pop is dropped
halt_result(s) == stack_top(s)

halt_frames_unwound(fs) == <<>>
\* Halt: break result, the frame stack is left as it is
halt_frames(fs) == fs

Halt ==
    /\ Step("Halt")
    /\ IF Len(stack) < 2
       THEN Panic(<<>>, frames)
       ELSE Break(stack_popped(stack_popped(stack)), halt_frames(frames), halt_result(stack))
    /\ Keep

return_is_outermost_le1(fs1) == Len(fs1) <= 1
\* Return: self.frames.is_empty() after the frame was popped
return_is_outermost(fs1) == fs1 = <<>>

return_truncate_len_noargs(fr, fn) == fr.stack_slot
return_truncate_len_by_operand(fr, fn) ==
    LET caller == frames[Len(frames) - 1]
    IN fr.stack_slot - StackFrame_func(stack, caller).code.instructions[caller.ip + 1].arg
\* Return: frame.stack_slot - frame.func().arg_types.len()
return_truncate_len(fr, fn) == fr.stack_slot - Len(fn.arg_types)

return_stack_push_first(s1, len, return_value) ==
    stack_truncate(stack_push(s1, return_value), len)
\* Return: truncate, then push the return value
return_stack(s1, len, return_value) ==
    stack_push(stack_truncate(s1, len), return_value)

return_resume_at_call(fs1) == fs1
\* Return: the caller becomes the active frame and next() advances its ip
return_resume(fs1) == next(fs1, Len(fs1))

return_frame_stale(fs1) == Len(fs1) + 1
\* Return: self.frame = self.frames.last_mut()
return_frame(fs1) == Len(fs1)

Return ==
    /\ Step("Return")
    /\ returns_executed' = returns_executed + 1
    /\ LET fr == stack_top(frames)
           fs1 == stack_popped(frames)
           return_value == stack_top(stack)
           s1 == stack_popped(stack)
           len == return_truncate_len(fr, StackFrame_func(stack, fr))
       IN IF Len(stack) = 0
          THEN Panic(stack, fs1)
          ELSE IF return_is_outermost(fs1)
          THEN Break(s1, fs1, return_value)
          ELSE IF len < 0
          \* usize underflow: a panic in a debug build, a wrap-around
          \* (truncate then removes nothing) in a release build
          THEN \E build \in {"debug", "release"} :
                  IF build = "debug" THEN Panic(s1, fs1)
                  ELSE Go(stack_push(s1, return_value), return_resume(fs1), return_frame(fs1))
          ELSE Go(return_stack(s1, len, return_value), return_resume(fs1), return_frame(fs1))
    /\ UNCHANGED <<globals, ffi_values, push_frame_calls>>

CallKind_no_default(value) ==
    IF value.tag = "Func" THEN "Func" ELSE "ForeignFunc"
\* Call: the match on the peeked callee
CallKind(value) ==
    IF value.tag = "Func" THEN "Func"
    ELSE IF value.tag = "ForeignFunc" THEN "ForeignFunc"
    ELSE "uncallable"

foreign_values_unreversed(s, arg_count) == PopN(stack_popped(s), arg_count)
\* Call, ForeignFunc arm: pop the callee, pop arg_count values, reverse them
foreign_values(s, arg_count) == Reverse(PopN(stack_popped(s), arg_count))

Call ==
    /\ Step("Call")
    /\ IF Len(stack) = 0
       THEN Panic(stack, frames) /\ Keep
       ELSE LET value == stack_peek(stack, 0)
                arg_count == CurInst.arg
            IN CASE CallKind(value) = "Func" ->
                      LET r == push_frame(stack, frames, stack_len(stack) - 1)
                      IN /\ IF r.overflow THEN Panic(stack, frames)
                            ELSE Go(r.stack, r.frames, r.frame)
                         /\ push_frame_calls' = push_frame_calls + 1
                         /\ UNCHANGED <<globals, ffi_values, returns_executed>>
                 [] CallKind(value) = "ForeignFunc" ->
                      IF Len(stack) < arg_count + 1
                      THEN Panic(<<>>, frames) /\ Keep
                      ELSE LET s2 == SubSeq(stack, 1, Len(stack) - 1 - arg_count)
                           IN /\ ffi_values' = foreign_values(stack, arg_count)
                              /\ \E res \in FfiOutcomes :
                                    IF res = NoValue THEN Panic(s2, frames)
                                    ELSE Go(stack_push(s2, res), next(frames, frame), frame)
                              /\ UNCHANGED <<globals, push_frame_calls, returns_executed>>
                 [] OTHER -> Panic(stack, frames) /\ Keep

GetGlobal ==
    /\ Step("GetGlobal")
    /\ IF CurInst.arg >= Len(globals) \/ stack_overflow(stack, 1, STACK_MAX)
       THEN Panic(stack, frames)
       ELSE Go(stack_push(stack, globals[CurInst.arg + 1]), next(frames, frame), frame)
    /\ Keep

global_ptr_first(slot) == Value_Pointer(PointerToGlobal(0))
\* GetGlobalPtr: Value::Pointer(value.into()) of globals[slot]
global_ptr(slot) == Value_Pointer(PointerToGlobal(slot))

GetGlobalPtr ==
    /\ Step("GetGlobalPtr")
    /\ IF CurInst.arg >= Len(globals) \/ stack_overflow(stack, 1, STACK_MAX)
       THEN Panic(stack, frames)
       ELSE Go(stack_push(stack, global_ptr(CurInst.arg)), next(frames, frame), frame)
    /\ Keep

\* Pointer::write_value on a pointer into Globals
write_value(gs, ptr, value) == [gs EXCEPT ![ptr.index + 1] = value]

assign_operands_as_written(s) ==
    [lvalue |-> stack_top(stack_popped(s)), rvalue |-> stack_top(s)]
\* Assign: the pointer is popped first, the value second
assign_operands(s) ==
    [lvalue |-> stack_top(s), rvalue |-> stack_top(stack_popped(s))]

Assign ==
    /\ Step("Assign")
    /\ IF Len(stack) = 0 \/ (Len(stack) = 1 /\ stack_top(stack).tag # "Pointer")
       THEN Panic(SubSeq(stack, 1, Len(stack) - 1), frames) /\ UNCHANGED globals
       ELSE IF Len(stack) < 2
       THEN Panic(<<>>, frames) /\ UNCHANGED globals
       ELSE LET ops == assign_operands(stack)
            IN IF ops.lvalue.tag # "Pointer"
               THEN Panic(stack_popped(stack), frames) /\ UNCHANGED globals
               ELSE /\ globals' = write_value(globals, ops.lvalue.v, ops.rvalue)
                    /\ Go(stack_popped(stack_popped(stack)), next(frames, frame), frame)
    /\ UNCHANGED <<ffi_values, push_frame_calls, returns_executed>>

set_global_insert(gs, slot, value) ==
    SubSeq(gs, 1, slot) \o <<value>> \o SubSeq(gs, slot + 1, Len(gs))
\* SetGlobal: self.interp.globals[slot] = value
set_global(gs, slot, value) == [gs EXCEPT ![slot + 1] = value]

\* SetGlobal: the value is popped first, then the slot is indexed
SetGlobal ==
    /\ Step("SetGlobal")
    /\ IF Len(stack) = 0
       THEN Panic(stack, frames) /\ UNCHANGED globals
       ELSE IF CurInst.arg >= Len(globals)
       THEN Panic(stack_popped(stack), frames) /\ UNCHANGED globals
       ELSE /\ globals' = set_global(globals, CurInst.arg, stack_top(stack))
            /\ Go(stack_popped(stack), next(frames, frame), frame)
    /\ UNCHANGED <<ffi_values, push_frame_calls, returns_executed>>

\* Neg: Value::Int(v) => Value::Int(-v); every other variant panics
neg(value) ==
    IF value.tag = "Int" THEN [ok |-> TRUE, v |-> Value_Int(0 - value.v)]
    ELSE [ok |-> FALSE, v |-> value]

Neg ==
    /\ Step("Neg")
    /\ IF Len(stack) = 0
       THEN Panic(stack, frames)
       ELSE LET r == neg(stack_top(stack))
            IN IF r.ok
               THEN Go(stack_push(stack_popped(stack), r.v), next(frames, frame), frame)
               ELSE Panic(stack_popped(stack), frames)
    /\ Keep

\* Increment: *v += 1 on the ten integer pointer variants; every other pointer panics
increment(pointee, build) ==
    IF pointee.tag \in IntTags
    THEN LET r == native("+", pointee.tag, pointee.v, 1, build)
         IN [ok |-> r.ok, v |-> [tag |-> pointee.tag, v |-> r.v]]
    ELSE [ok |-> FALSE, v |-> pointee]

Increment ==
    /\ Step("Increment")
    /\ IF Len(stack) = 0 \/ stack_top(stack).tag # "Pointer"
       THEN Panic(SubSeq(stack, 1, Len(stack) - 1), frames) /\ UNCHANGED globals
       ELSE LET ptr == stack_top(stack).v
            IN \E build \in Builds :
                  LET r == increment(globals[ptr.index + 1], build)
                  IN IF r.ok
                     THEN /\ globals' = write_value(globals, ptr, r.v)
                          /\ Go(stack_popped(stack), next(frames, frame), frame)
                     ELSE Panic(stack_popped(stack), frames) /\ UNCHANGED globals
    /\ UNCHANGED <<ffi_values, push_frame_calls, returns_executed>>

frame_slot_above(fr, slot) == fr.stack_slot + slot + 1
\* Peek / SetLocal: self.frame().stack_slot as isize + slot as isize
frame_slot(fr, slot) == fr.stack_slot + slot

Peek ==
    /\ Step("Peek")
    /\ LET slot == frame_slot(CurFrame, CurInst.arg)
       IN IF slot < 0 \/ slot >= Len(stack) \/ stack_overflow(stack, 1, STACK_MAX)
          THEN Panic(stack, frames)
          ELSE Go(stack_push(stack, stack_get(stack, slot)), next(frames, frame), frame)
    /\ Keep

\* SetLocal: the slot is computed first, then the value is popped, then stored
SetLocal ==
    /\ Step("SetLocal")
    /\ LET slot == frame_slot(CurFrame, CurInst.arg)
           value == stack_top(stack)
           s1 == stack_popped(stack)
       IN IF Len(stack) = 0
          THEN Panic(stack, frames)
          ELSE IF slot < 0 \/ slot >= Len(s1)
          THEN Panic(s1, frames)
          ELSE Go(stack_set(s1, slot, value), next(frames, frame), frame)
    /\ Keep

\* run_inner: frame.func().code.instructions[frame.ip] with ip outside the code
FetchPanic ==
    /\ status = "running"
    /\ (CurFrame.ip < 0 \/ CurFrame.ip >= Len(CurCode))
    /\ Panic(stack, frames)
    /\ UNCHANGED <<constants, evaluated_globals, scn, last, bindings_to_globals, lowered_code,
                   env, CheckVars>>
    /\ Keep

jmp_past(fs, f, offset) == [fs EXCEPT ![f].ip = @ + 1 + offset]
\* VM::jmp: ip = ip + offset
jmp(fs, f, offset) == [fs EXCEPT ![f].ip = @ + offset]

\* Value::into_bool: Bool(true) is truthy, all else falsy
into_bool(value) == value = Value_Bool(TRUE)

Jmp_in_place ==
    /\ Step("Jmp")
    /\ Go(stack, frames, frame)
    /\ Keep
Jmp ==
    /\ Step("Jmp")
    /\ Go(stack, jmp(frames, frame, CurInst.arg), frame)
    /\ Keep

peek_condition(s) == [value |-> stack_top(s), stack |-> s]
\* Jmpt / Jmpf: self.stack.pop()
pop_condition(s) == [value |-> stack_top(s), stack |-> stack_popped(s)]

Jmpt ==
    /\ Step("Jmpt")
    /\ IF Len(stack) = 0
       THEN Panic(stack, frames)
       ELSE LET c == pop_condition(stack)
            IN IF into_bool(c.value)
               THEN Go(c.stack, jmp(frames, frame, CurInst.arg), frame)
               ELSE Go(c.stack, next(frames, frame), frame)
    /\ Keep

Jmpf ==
    /\ Step("Jmpf")
    /\ IF Len(stack) = 0
       THEN Panic(stack, frames)
       ELSE LET c == pop_condition(stack)
            IN IF ~into_bool(c.value)
               THEN Go(c.stack, jmp(frames, frame, CurInst.arg), frame)
               ELSE Go(c.stack, next(frames, frame), frame)
    /\ Keep

AggregateAlloc ==
    /\ Step("AggregateAlloc")
    /\ IF stack_overflow(stack, 1, STACK_MAX)
       THEN Panic(stack, frames)
       ELSE Go(stack_push(stack, Value_unit), next(frames, frame), frame)
    /\ Keep

aggregate_push_front(elements, value) == <<value>> \o elements
\* AggregatePush: aggregate.elements.push(value)
aggregate_push(elements, value) == Append(elements, value)

AggregatePush ==
    /\ Step("AggregatePush")
    /\ IF Len(stack) = 0
       THEN Panic(stack, frames)
       ELSE LET value == stack_top(stack)
                s1 == stack_popped(stack)
            IN IF Len(s1) = 0 \/ ~is_aggregate(stack_top(s1))
               THEN Panic(s1, frames)
               ELSE Go(stack_set(s1, Len(s1) - 1,
                                 Value_Aggregate(aggregate_push(as_aggregate(stack_top(s1)),
                                                                value))),
                       next(frames, frame), frame)
    /\ Keep

\* VM::index on an Aggregate: push a clone of elements[index]
index(s, value, i) ==
    IF is_aggregate(value) /\ i < Len(as_aggregate(value))
    THEN [ok |-> TRUE, stack |-> stack_push(s, as_aggregate(value)[i + 1])]
    ELSE [ok |-> FALSE, stack |-> s]

ConstIndex ==
    /\ Step("ConstIndex")
    /\ IF Len(stack) = 0
       THEN Panic(stack, frames)
       ELSE LET r == index(stack_popped(stack), stack_top(stack), CurInst.arg)
            IN IF r.ok THEN Go(r.stack, next(frames, frame), frame)
               ELSE Panic(r.stack, frames)
    /\ Keep

Next ==
    \/ lower_add_local
    \/ lower_push_const
    \/ lower_push_const_unit
    \/ lower_insert_global
    \/ lower_get_global
    \/ eval
    \/ create_session
    \/ PushConst
    \/ Add
    \/ Sub
    \/ Mul
    \/ Div
    \/ Rem
    \/ Eq
    \/ Neq
    \/ Lt
    \/ LtEq
    \/ Gt
    \/ GtEq
    \/ Halt
    \/ Return
    \/ Call
    \/ GetGlobal
    \/ GetGlobalPtr
    \/ Assign
    \/ SetGlobal
    \/ Neg
    \/ Increment
    \/ Peek
    \/ SetLocal
    \/ AggregateAlloc
    \/ AggregatePush
    \/ ConstIndex
    \/ Jmp
    \/ Jmpt
    \/ Jmpf
    \/ FetchPanic

Spec == Init /\ [][Next]_vars

\* the programs the liveness properties are checked on: every kind of
\* expression, with nothing below the arguments, no temporaries, at most
\* MaxLive parameters, locals and global initializers, and 8-bit operands
LiveScenarios ==
    {s \in Scenarios :
        /\ ("pre" \in DOMAIN s) => s.pre = 0
        /\ ("temps" \in DOMAIN s) => s.temps = 0
        /\ ("argc" \in DOMAIN s) => s.argc <= MaxLive
        /\ (s.kind # "recurse" /\ "locals" \in DOMAIN s) => s.locals <= MaxLive
        /\ (s.kind = "binop") => (s.ta = "I8" /\ s.tb \in {"I8", "I16"})
        /\ (s.kind = "jmp") => s.offset > 0
        /\ (s.kind = "callop") => s.operand <= MaxLive
        /\ (s.kind = "ptr_first") => s.slot <= MaxLive
        /\ (s.kind = "steps") => (s.budget <= MaxLive /\ s.calls = 0)
        /\ (s.kind = "setg") => (s.slot <= MaxLive /\ s.j <= MaxLive)
        /\ (s.kind = "neg") => s.tag \in {"Int", "I8"}
        /\ (s.kind = "incr") => (s.tag = "U8" /\ s.slot <= MaxLive)}
LiveInit == Init /\ scn \in LiveScenarios /\ Len(evaluated_globals) <= MaxLive
\* run_inner is a plain loop { .. }: as long as an instruction can execute,
\* the next iteration executes it
FairSpec == LiveInit /\ [][Next]_vars /\ WF_vars(Next)

----------------------------------------------------------------------------
(* Properties *)

Finished == status \in {"returned", "panicked"}

\* the frame a Return is about to pop, its function and declared parameter count
ReturnInner == AtInst("Return") /\ Len(frames) > 1
RetSlot == CurFrame.stack_slot
RetArgc == Len(CurFunc.arg_types)

\* C1: the entry function [PushConst(c5), PushConst(c3), Add, Halt] with
\* constants[c5] = Int(5) and constants[c3] = Int(3) returns Int(8).
C1_AddHaltReturns8 ==
    (scn.kind = "add" /\ scn.a = 5 /\ scn.b = 3 /\ evaluated_globals = <<>> /\ Finished)
        => (status = "returned" /\ result = Value_Int(8))

C1_Witness ==
    /\ scn.kind = "add" /\ scn.a = 5 /\ scn.b = 3 /\ evaluated_globals = <<>>
    /\ constants = <<Value_unit, Value_Int(5), Value_Int(3)>>
    /\ status = "returned" /\ last.op = "Halt" /\ result = Value_Int(8)

\* C2: a two-parameter function that Peeks its two arguments, compares them
\* with Lt and Returns, called by Call(2) with Int(2) pushed first, Int(7)
\* second and the callee last, makes the run return Bool(true).
C2_LtCallReturnsTrue ==
    (scn.kind = "lt" /\ scn.a = 2 /\ scn.b = 7 /\ Finished)
        => (status = "returned" /\ result = Value_Bool(TRUE))

C2_Witness ==
    /\ scn.kind = "lt" /\ scn.a = 2 /\ scn.b = 7
    /\ status = "returned" /\ last.op = "Halt" /\ result = Value_Bool(TRUE)
    /\ returns_executed >= 1

\* C3: a Return in a non-outermost frame with base slot stack_slot whose
\* function declares argc parameters leaves a stack of length
\* stack_slot - argc + 1 whose top is the returned value; below it are exactly
\* the cells that lay below the first argument (the callee cell, the arguments,
\* the locals and the temporaries are gone).
C3_ReturnStackLength ==
    [][ReturnInner =>
          /\ status' = "running"
          /\ Len(stack') = RetSlot - RetArgc + 1
          /\ stack_top(stack') = stack_top(stack)
          /\ stack_popped(stack') = SubSeq(stack, 1, RetSlot - RetArgc)]_vars

C3_Witness ==
    /\ status = "running" /\ last.op = "Return"
    /\ scn.kind = "call" /\ scn.argc = 2 /\ scn.locals >= 1 /\ scn.temps >= 1 /\ scn.pre = 1
    /\ Len(frames) = 1
    /\ stack_top(stack) = RetValue
    /\ Len(stack) = Len(evaluated_globals) + 3

\* C4 as stated: after a Return from a non-outermost frame the return value
\* occupies the index the callee occupied at call time (the frame's
\* stack_slot), for every argc >= 0.
C4_ReturnValueAtCalleeIndex ==
    [][ReturnInner =>
          /\ Len(stack') = RetSlot + 1
          /\ stack_get(stack', RetSlot) = stack_top(stack)]_vars

\* C4 amended: the return value occupies index stack_slot - argc, on top of the
\* stack: the callee's index when argc = 0, and for argc >= 1 the index the
\* first argument occupied, argc cells below the callee's.
C4_ReturnValueAtFirstArgIndex ==
    [][ReturnInner =>
          /\ Len(stack') = RetSlot - RetArgc + 1
          /\ stack_get(stack', RetSlot - RetArgc) = stack_top(stack)
          /\ (RetArgc = 0 => stack_get(stack, RetSlot - RetArgc).tag = "Func")
          /\ (RetArgc >= 1 /\ scn.kind = "call"
                => stack_get(stack, RetSlot - RetArgc) = ArgValue(1))
          /\ (RetArgc >= 1 /\ scn.kind = "lt"
                => stack_get(stack, RetSlot - RetArgc) = Value_Int(scn.a))]_vars

C4_Witness ==
    /\ status = "running" /\ last.op = "Return"
    /\ scn.kind = "call" /\ scn.argc = 2 /\ scn.nested = 0 /\ scn.pre = 0
    /\ evaluated_globals = <<>>
    /\ stack = <<stack[1], RetValue>>
    /\ stack[1].tag = "Func"

\* C5 as stated: when the final Halt of a well-formed program executes, the
\* number of push_frame calls of the run equals the number of Returns executed.
C5_PushFramesEqualReturns ==
    (WellFormed(scn) /\ status = "returned" /\ last.op = "Halt")
        => push_frame_calls = returns_executed

\* C5 amended: the run of a well-formed program ends at a Halt executed in the
\* entry frame, and then the number of push_frame calls equals the number of
\* Returns executed plus one: run_func pushes the entry frame, which Halt ends
\* without a Return.
C5_PushFramesEqualReturnsPlusOne ==
    (WellFormed(scn) /\ status = "returned")
        => /\ last.op = "Halt"
           /\ Len(frames) = 1
           /\ push_frame_calls = returns_executed + 1

C5_Witness ==
    /\ scn.kind = "call" /\ scn.nested = 1 /\ Len(evaluated_globals) = 1
    /\ status = "returned" /\ last.op = "Halt"
    /\ returns_executed = 3 /\ push_frame_calls = 4

\* a Call about to execute, by the kind of value on top of the stack
CallsFunction ==
    /\ AtInst("Call") /\ Len(stack) >= 1 /\ stack_top(stack).tag = "Func"
    /\ ~stack_overflow(stack, stack_top(stack).v.code.locals, STACK_MAX)
    /\ ~stack_overflow(frames, 1, FRAMES_MAX)
CallsForeign ==
    /\ AtInst("Call") /\ stack_top(stack).tag = "ForeignFunc"
    /\ Len(stack) >= CurInst.arg + 1
CallsUncallable ==
    /\ AtInst("Call") /\ Len(stack) >= 1
    /\ stack_top(stack).tag \notin {"Func", "ForeignFunc"}

\* the state a Function call of the "call" scenario's entry code has just produced
JustCalled ==
    /\ status = "running" /\ last.op = "Call" /\ Len(frames) = 2 /\ CurFrame.ip = 0
    /\ scn.kind = "call" /\ scn.argc >= 1 /\ CurFunc.name = "f"
\* the index of the cell holding the first argument
FirstArgIndex == CHOOSE i \in 0..(Len(stack) - 1) : stack_get(stack, i) = ArgValue(1)

\* C6: Call(argc) with a Function on top does not pop the callee; it pushes
\* exactly one frame, with base slot (stack length before the call) - 1 and
\* ip 0, the operand stack grows by exactly `locals` Unit values, and the
\* frames below (the caller's ip included) are untouched.
C6_CallFunctionPushesFrame ==
    [][CallsFunction =>
          /\ status' = "running"
          /\ Len(frames') = Len(frames) + 1
          /\ stack_popped(frames') = frames
          /\ stack_top(frames').stack_slot = Len(stack) - 1
          /\ stack_top(frames').ip = 0
          /\ frame' = Len(frames')
          /\ stack' = stack \o Units(stack_top(stack).v.code.locals)]_vars

C6_Witness ==
    /\ status = "running" /\ last.op = "Call" /\ Len(frames) = 2 /\ CurFrame.ip = 0
    /\ scn.kind = "call" /\ scn.locals = 2 /\ scn.argc = 1 /\ scn.pre = 0
    /\ evaluated_globals = <<>>
    /\ CurFrame.stack_slot = 2
    /\ stack_get(stack, 2).tag = "Func"
    /\ SubSeq(stack, 4, 5) = <<Value_unit, Value_unit>>
    /\ Len(stack) = 5

\* C7 as stated: when a Function is called with argc >= 1 arguments the callee
\* cell sits immediately below the first argument.
C7_CalleeBelowFirstArg ==
    JustCalled => CurFrame.stack_slot = FirstArgIndex - 1

\* C7 amended: the callee cell sits immediately above the last argument
\* (callee index = index of the first argument + argc); the argc cells below
\* the callee, which Return later removes, hold the arguments in push order.
C7_CalleeAboveLastArg ==
    JustCalled =>
        /\ CurFrame.stack_slot = FirstArgIndex + scn.argc
        /\ stack_get(stack, CurFrame.stack_slot).tag = "Func"
        /\ return_truncate_len(CurFrame, CurFunc) = FirstArgIndex
        /\ \A k \in 1..scn.argc :
              stack_get(stack, return_truncate_len(CurFrame, CurFunc) + k - 1) = ArgValue(k)

C7_Witness ==
    /\ JustCalled /\ scn.argc = 2 /\ scn.pre = 1 /\ evaluated_globals = <<>>
    /\ SubSeq(stack, 2, 4) = <<PreValue, ArgValue(1), ArgValue(2)>>
    /\ CurFrame.stack_slot = 4

\* C8: Call(argc) with a ForeignFunction on top pops the callee, pops exactly
\* argc values and hands them to the foreign-call boundary in the order they
\* were pushed, pushes no frame, and, when the boundary returns, pushes its
\* one result and advances the current frame's ip by one: the stack ends
\* argc shorter.
C8_CallForeign ==
    [][CallsForeign =>
          /\ ffi_values' = SubSeq(stack, Len(stack) - CurInst.arg, Len(stack) - 1)
          /\ Len(frames') = Len(frames)
          /\ stack_popped(frames') = stack_popped(frames)
          /\ stack_top(frames').stack_slot = CurFrame.stack_slot
          /\ status' \in {"running", "panicked"}
          /\ (status' = "running" =>
                /\ stack_top(frames').ip = CurFrame.ip + 1
                /\ Len(stack') = Len(stack) - CurInst.arg
                /\ stack_top(stack') \in FfiOutcomes \ {NoValue}
                /\ stack_popped(stack') = SubSeq(stack, 1, Len(stack) - 1 - CurInst.arg))
          /\ (status' = "panicked" =>
                stack' = SubSeq(stack, 1, Len(stack) - 1 - CurInst.arg))]_vars

C8_Witness ==
    /\ status = "running" /\ last.op = "Call" /\ last.arg = 2
    /\ scn.kind = "foreign" /\ scn.pre = 1 /\ evaluated_globals = <<>>
    /\ ffi_values = <<ArgValue(1), ArgValue(2)>>
    /\ Len(frames) = 1 /\ CurFrame.ip = 5
    /\ SubSeq(stack, 2, 3) = <<PreValue, Value_Int(1)>>
    /\ Len(stack) = 3

\* C9: Call(argc) on a value that is neither a Function nor a ForeignFunction
\* aborts the run: no result, no frame pushed, nothing popped.
C9_CallUncallableAborts ==
    [][CallsUncallable =>
          /\ status' = "panicked"
          /\ result' = NoValue
          /\ frames' = frames
          /\ stack' = stack]_vars

C9_Witness ==
    /\ status = "panicked" /\ last.op = "Call" /\ last.arg = 1
    /\ scn.kind = "uncallable"
    /\ stack_top(stack) = Value_Int(0)
    /\ Len(frames) = 1 /\ result = NoValue

\* C10: for every defined global slot and every value v, GetGlobalPtr(slot)
\* followed by Assign of v makes a subsequent GetGlobal(slot) push v, and
\* every other global slot keeps its value.
C10_PointerWriteThrough ==
    scn.kind = "gptr" =>
        /\ status # "panicked"
        /\ (last.op \in {"GetGlobal", "Halt"} =>
              \A j \in 0..(NumGlobals - 1) :
                 globals[j + 1] = IF j = scn.slot THEN Value_Int(scn.a) ELSE InitGlobals[j + 1])
        /\ (last.op = "GetGlobal" => stack_top(stack) = Value_Int(scn.a))
        /\ (status = "returned" => result = Value_Int(scn.a))

C10_Witness ==
    /\ scn.kind = "gptr" /\ scn.slot = 1 /\ scn.a = 7
    /\ status = "running" /\ last.op = "GetGlobal"
    /\ stack_top(stack) = Value_Int(7)
    /\ globals = <<InitGlobals[1], Value_Int(7)>> \o SubSeq(InitGlobals, 3, NumGlobals)

\* a Peek / SetLocal about to execute on a slot inside the operand stack
PeeksSlot ==
    /\ AtInst("Peek")
    /\ CurFrame.stack_slot + CurInst.arg \in 0..(Len(stack) - 1)
SetsLocal ==
    /\ AtInst("SetLocal")
    /\ CurFrame.stack_slot + CurInst.arg \in 0..(Len(stack) - 2)

\* C11: inside a frame with base slot S, Peek(n) pushes a copy of the value at
\* absolute index S + n and changes no existing slot; SetLocal(n) pops the top
\* value and stores it at absolute index S + n, leaving every other slot
\* unchanged and the stack one shorter.
C11_LocalSlotAddressing ==
    [][/\ (PeeksSlot =>
              /\ status' = "running"
              /\ stack' = Append(stack, stack_get(stack, CurFrame.stack_slot + CurInst.arg)))
       /\ (SetsLocal =>
              /\ status' = "running"
              /\ Len(stack') = Len(stack) - 1
              /\ stack_get(stack', CurFrame.stack_slot + CurInst.arg) = stack_top(stack)
              /\ \A i \in 0..(Len(stack) - 2) :
                    i # CurFrame.stack_slot + CurInst.arg
                        => stack_get(stack', i) = stack_get(stack, i))]_vars

C11_Witness ==
    /\ scn.kind = "local" /\ scn.argc = 2 /\ scn.locals = 1 /\ scn.pre = 1
    /\ scn.n = -2 /\ scn.m = 0 /\ evaluated_globals = <<>>
    /\ status = "running" /\ last = Inst("Peek", 0) /\ Len(frames) = 2
    /\ CurFrame.stack_slot = 4
    /\ stack_get(stack, 2) = StoredValue
    /\ stack_get(stack, 3) = ArgValue(2)
    /\ stack_top(stack) = stack_get(stack, 4)
    /\ stack_top(stack).tag = "Func"
    /\ Len(stack) = 7

\* C12: for every N >= 1 and 0 <= i < N, AggregateAlloc, then N times (push
\* v_k; AggregatePush), then ConstIndex(i) leaves v_i on top of the stack;
\* AggregatePush appends at the end, so element order equals push order.
C12_AggregateRoundTrip ==
    scn.kind = "agg" =>
        /\ status # "panicked"
        /\ (last.op = "AggregatePush" =>
              /\ stack_top(stack).tag = "Aggregate"
              /\ Len(stack_top(stack).v) <= scn.n
              /\ stack_top(stack).v = [k \in 1..Len(stack_top(stack).v) |-> ElemValue(k - 1)])
        /\ (last.op = "ConstIndex" => stack_top(stack) = ElemValue(scn.i))
        /\ (status = "returned" => result = ElemValue(scn.i))

C12_Witness ==
    /\ scn.kind = "agg" /\ scn.n = MaxAgg /\ scn.i = 1 /\ evaluated_globals = <<>>
    /\ status = "running" /\ last = Inst("ConstIndex", 1)
    /\ stack_top(stack) = ElemValue(1)
    /\ Len(stack) = 2

\* the two operands of a binary instruction about to execute: B on top, A below
OperandA == stack_peek(stack, 1)
OperandB == stack_top(stack)
AtBinary(insts) ==
    /\ status = "running" /\ CurFrame.ip >= 0 /\ CurFrame.ip < Len(CurCode)
    /\ CurInst.op \in insts
    /\ Len(stack) >= 2
SameTagNumeric(insts) ==
    /\ AtBinary(insts)
    /\ OperandA.tag = OperandB.tag /\ OperandA.tag \in NumericTags
BothPopped == SubSeq(stack, 1, Len(stack) - 2)

\* the mathematical result of Add / Sub / Mul on two integer payloads
ExactInt(inst, a, b) ==
    CASE inst = "Add" -> a + b [] inst = "Sub" -> a - b [] OTHER -> a * b
\* the result of Add / Sub / Mul on two finite float payloads (counts of quarters)
ExactFloat(inst, a, b) ==
    CASE inst = "Add" -> FloatFin(a.q + b.q)
      [] inst = "Sub" -> FloatFin(a.q - b.q)
      [] OTHER -> FloatFin((a.q * b.q) \div 4)
\* v is r reduced to the width of the variant tag
AtWidth(tag, v, r) ==
    IF tag \in NarrowTags
    THEN TagMin(tag) <= v /\ v <= TagMax(tag) /\ (v - r) % Pow2(Bits(tag)) = 0
    ELSE v = r
PushedOne(tag) ==
    /\ status' = "running"
    /\ Len(stack') = Len(stack) - 1
    /\ stack_popped(stack') = BothPopped
    /\ stack_top(stack').tag = tag

\* C13 as stated: Add, Sub and Mul on two operands of one numeric variant T
\* always push one value tagged T, the native result at T's width, also at the
\* boundary values of T.
C13_ArithmeticAlwaysPushes ==
    [][SameTagNumeric({"Add", "Sub", "Mul"}) =>
          /\ PushedOne(OperandA.tag)
          /\ IF OperandA.tag \in FloatTags
             THEN stack_top(stack').v = ExactFloat(CurInst.op, OperandA.v, OperandB.v)
             ELSE AtWidth(OperandA.tag, stack_top(stack').v,
                          ExactInt(CurInst.op, OperandA.v, OperandB.v))]_vars

\* C13 amended: both operands are popped; when the result is representable in
\* T (always, for a float) one value tagged T holding it is pushed; when an
\* integer result overflows T the run aborts in a build with overflow checks
\* and pushes the result wrapped to T's width in a build without them.
C13_ArithmeticClosure ==
    [][SameTagNumeric({"Add", "Sub", "Mul"}) =>
          IF OperandA.tag \in FloatTags
          THEN /\ PushedOne(OperandA.tag)
               /\ stack_top(stack').v = ExactFloat(CurInst.op, OperandA.v, OperandB.v)
          ELSE LET r == ExactInt(CurInst.op, OperandA.v, OperandB.v)
               IN IF in_range(OperandA.tag, r)
                  THEN PushedOne(OperandA.tag) /\ stack_top(stack').v = r
                  ELSE \/ (status' = "panicked" /\ stack' = BothPopped /\ result' = NoValue)
                       \/ (/\ PushedOne(OperandA.tag)
                           /\ stack_top(stack').v # r
                           /\ AtWidth(OperandA.tag, stack_top(stack').v, r))]_vars

C13_Witness ==
    /\ scn = BinOp("Add", "I8", 127, "I8", 3) /\ evaluated_globals = <<>>
    /\ status = "running" /\ last.op = "Add"
    /\ stack_top(stack) = [tag |-> "I8", v |-> -126]
    /\ Len(stack) = 2

\* q is the quotient of a by b truncated toward zero
IsQuotient(q, a, b) ==
    \E r \in (1 - abs(b))..(abs(b) - 1) :
        a = q * b + r /\ (r = 0 \/ (r < 0) = (a < 0))
\* the quotient of the least value of a signed variant by -1 is not a value of it
QuotientOverflows(tag, a, b) ==
    tag \in SignedTags /\ tag \in NarrowTags /\ a = TagMin(tag) /\ b = -1

\* C14 as stated: Div on two integers of one variant aborts when the divisor
\* is 0 and otherwise pushes a / b with the same tag; Div on two floats never
\* aborts.
C14_DivAbortsOnlyOnZero ==
    [][SameTagNumeric({"Div"}) =>
          IF OperandA.tag \in FloatTags THEN PushedOne(OperandA.tag)
          ELSE IF OperandB.v = 0 THEN status' = "panicked" /\ result' = NoValue
          ELSE /\ PushedOne(OperandA.tag)
               /\ IsQuotient(stack_top(stack').v, OperandA.v, OperandB.v)]_vars

\* C14 amended: Div on two integers of one variant aborts when the divisor is 0
\* and when a signed dividend is the least value of its variant and the divisor
\* is -1; otherwise it pushes the truncated quotient with the same tag.  Div on
\* two floats never aborts: a zero divisor gives an infinity or NaN.
C14_DivFault ==
    [][SameTagNumeric({"Div"}) =>
          IF OperandA.tag \in FloatTags
          THEN /\ PushedOne(OperandA.tag)
               /\ (OperandB.v.q = 0 =>
                     stack_top(stack').v =
                        IF OperandA.v.q = 0 THEN FloatNaN
                        ELSE FloatInf(IF OperandA.v.q < 0 THEN -1 ELSE 1))
          ELSE IF OperandB.v = 0 \/ QuotientOverflows(OperandA.tag, OperandA.v, OperandB.v)
          THEN status' = "panicked" /\ result' = NoValue /\ stack' = BothPopped
          ELSE /\ PushedOne(OperandA.tag)
               /\ IsQuotient(stack_top(stack').v, OperandA.v, OperandB.v)]_vars

C14_Witness ==
    /\ scn = BinOp("Div", "I8", -128, "I8", -1) /\ evaluated_globals = <<>>
    /\ status = "panicked" /\ last.op = "Div"
    /\ Len(stack) = 1 /\ result = NoValue

\* C15: every arithmetic opcode (Add, Sub, Mul, Div, Rem) and every comparison
\* opcode (Eq, Neq, Lt, LtEq, Gt, GtEq) aborts the run whenever its two
\* operands carry different tags, two integer variants of different width or
\* signedness included; no result is pushed and nothing is widened.
C15_TagMismatchAborts ==
    [][(AtBinary(ArithInsts \cup CompInsts) /\ OperandA.tag # OperandB.tag) =>
          /\ status' = "panicked"
          /\ result' = NoValue
          /\ stack' = BothPopped
          /\ frames' = frames]_vars

C15_Witness ==
    /\ scn = BinOp("LtEq", "I32", 1, "U32", 1) /\ evaluated_globals = <<>>
    /\ status = "panicked" /\ last.op = "LtEq"
    /\ Len(stack) = 1 /\ result = NoValue
    /\ frames[1].ip = 2

\* a conditional jump about to execute on a Bool condition
AtCondJump(op) ==
    AtInst(op) /\ Len(stack) >= 1 /\ stack_top(stack).tag = "Bool"
JumpsBy(n) ==
    /\ status' = "running"
    /\ stack' = stack_popped(stack)
    /\ frames' = [frames EXCEPT ![frame].ip = @ + n]
    /\ frame' = frame

\* C16: Jmpt(offset) and Jmpf(offset) each pop exactly one value whether or
\* not the jump is taken; Jmpt jumps iff the popped value is Bool(true), Jmpf
\* iff it is Bool(false); when the jump is not taken ip advances by one.
C16_ConditionalJumpPopsOnce ==
    [][/\ (AtCondJump("Jmpt") =>
              JumpsBy(IF stack_top(stack) = Value_Bool(TRUE) THEN CurInst.arg ELSE 1))
       /\ (AtCondJump("Jmpf") =>
              JumpsBy(IF stack_top(stack) = Value_Bool(FALSE) THEN CurInst.arg ELSE 1))]_vars

C16_Witness ==
    /\ scn.kind = "jump" /\ scn.op = "Jmpf" /\ scn.cond = FALSE /\ scn.offset = 3
    /\ evaluated_globals = <<>>
    /\ status = "running" /\ last = Inst("Jmpf", 3)
    /\ CurFrame.ip = 4 /\ Len(stack) = 1

\* C17: a run ends with a result only by Halt or by a Return executed when
\* exactly one frame is on the frame stack, and the result is the value that
\* was on top of the operand stack when that instruction executed; Halt ends
\* the run at any frame depth, without unwinding the remaining frames.
C17_RunEndsByHaltOrOutermostReturn ==
    [][/\ ((status = "running" /\ status' = "returned") =>
              /\ \/ CurInst.op = "Halt"
                 \/ (CurInst.op = "Return" /\ Len(frames) = 1)
              /\ result' = stack_top(stack))
       /\ ((AtInst("Halt") /\ Len(stack) >= 2) =>
              /\ status' = "returned"
              /\ frames' = frames)
       /\ ((AtInst("Return") /\ Len(frames) = 1 /\ Len(stack) >= 1) =>
              status' = "returned")
       /\ ((AtInst("Return") /\ Len(frames) > 1 /\ Len(stack) >= 1) =>
              status' # "returned")]_vars

C17_Witness ==
    /\ scn.kind = "end" /\ scn.by = "Halt" /\ scn.depth = 3 /\ evaluated_globals = <<>>
    /\ status = "returned" /\ last.op = "Halt"
    /\ result = EndValue
    /\ Len(frames) = 3 /\ Len(stack) = 2

\* instructions that push one value without popping any
PushingInsts == {"PushConst", "Peek", "GetGlobal", "GetGlobalPtr", "AggregateAlloc"}

\* the current instruction would grow one of the two stacks past its capacity
PushPastStack == \E op \in PushingInsts : AtInst(op) /\ Len(stack) = STACK_MAX
CallPastCapacity ==
    /\ AtInst("Call") /\ Len(stack) >= 1 /\ stack_top(stack).tag = "Func"
    /\ \/ Len(frames) = FRAMES_MAX
       \/ Len(stack) + stack_top(stack).v.code.locals > STACK_MAX

OverflowAbort ==
    /\ status = "panicked"
    /\ \/ /\ last.op = "Call" /\ stack_top(stack).tag = "Func"
          /\ \/ Len(frames) = FRAMES_MAX
             \/ Len(stack) + stack_top(stack).v.code.locals > STACK_MAX
       \/ last.op = "PushConst" /\ Len(stack) = STACK_MAX

\* C19: a program in which a function unconditionally calls itself never
\* returns a value and never runs forever: it eventually aborts with frame-stack
\* or operand-stack overflow, and never holds more than 64 frames (the entry
\* frame included), so the abort comes no later than the push of a 65th frame.
C19_SelfRecursionAborts ==
    /\ [](scn.kind = "recurse" => (status # "returned" /\ Len(frames) <= FRAMES_MAX))
    /\ (scn.kind = "recurse") ~> (OverflowAbort /\ Len(frames) <= FRAMES_MAX)

C19_Witness ==
    /\ scn.kind = "recurse" /\ scn.locals = 0 /\ evaluated_globals = <<>>
    /\ OverflowAbort /\ last.op = "Call"
    /\ Len(frames) = FRAMES_MAX /\ push_frame_calls = FRAMES_MAX + 1

JumpInsts == {"Jmp", "Jmpt", "Jmpf"}
ForwardJumps(code) ==
    \A i \in 1..Len(code.instructions) :
        code.instructions[i].op \in JumpInsts => code.instructions[i].arg > 0
\* no function the run can execute holds a jump with an offset <= 0
ForwardOnly ==
    /\ \A i \in 1..Len(stack) : stack[i].tag = "Func" => ForwardJumps(stack[i].v.code)
    /\ \A i \in 1..Len(constants) :
          constants[i].tag = "Func" => ForwardJumps(constants[i].v.code)

\* C20 as stated: every invocation of run_func eventually finishes, whatever
\* the bytecode: the loop eventually returns a Value or aborts.
C20_EveryRunFinishes == (status = "running") ~> Finished

\* C20: every invocation of run_func on bytecode whose jump offsets are all
\* positive eventually finishes, foreign calls returning: the loop eventually
\* returns a Value (by Halt or the outermost Return) or aborts.
C20_ForwardRunsFinish == (status = "running" /\ ForwardOnly) ~> Finished

C20_Witness ==
    /\ scn.kind = "jump" /\ scn.op = "Jmpt" /\ scn.cond = TRUE /\ scn.offset = 3
    /\ ForwardOnly
    /\ status = "returned" /\ last.op = "Halt" /\ result = JumpedValue

\* C28: no instruction of the vm/mod.rs loop changes the length of Globals;
\* SetGlobal(slot) with slot < the Globals length pops one value and replaces
\* exactly globals[slot], and with slot >= the Globals length it aborts.
C28_SetGlobalReplacesOneSlot ==
    [][/\ (status = "running") => Len(globals') = Len(globals)
       /\ (AtInst("SetGlobal") /\ Len(stack) >= 1) =>
             IF CurInst.arg < Len(globals)
             THEN /\ status' = "running"
                  /\ stack' = stack_popped(stack)
                  /\ globals'[CurInst.arg + 1] = stack_top(stack)
                  /\ \A k \in 1..Len(globals) :
                        k # CurInst.arg + 1 => globals'[k] = globals[k]
             ELSE status' = "panicked" /\ globals' = globals]_vars

C28_Witness ==
    /\ scn.kind = "setg" /\ scn.slot = 0 /\ scn.j = 1
    /\ status = "running" /\ last = Inst("SetGlobal", 0)
    /\ globals = <<StoredValue>> \o Tail(InitGlobals)
    /\ Len(stack) = 1

NegTags == {"I8", "I16", "I32", "I64", "Int", "F32", "F64"}
Negation(value) ==
    [tag |-> value.tag, v |-> IF value.tag \in FloatTags THEN fneg(value.v) ELSE 0 - value.v]

\* C26: for each of I8, I16, I32, I64, Int, F32 and F64, Neg pops a value of
\* that tag and pushes its negation with the same tag, without aborting.
C26_NegEveryNumericVariant ==
    [][(AtInst("Neg") /\ Len(stack) >= 1 /\ stack_top(stack).tag \in NegTags) =>
          /\ status' = "running"
          /\ stack' = stack_push(stack_popped(stack), Negation(stack_top(stack)))]_vars

\* the pointer on top of the stack designates a numeric global
IncrementsNumeric ==
    /\ AtInst("Increment") /\ Len(stack) >= 1 /\ stack_top(stack).tag = "Pointer"
    /\ globals[stack_top(stack).v.index + 1].tag \in NumericTags
PlusOne(value) ==
    [tag |-> value.tag,
     v |-> IF value.tag \in FloatTags THEN fadd(value.v, FloatFin(4)) ELSE value.v + 1]

\* C27: Increment adds 1 to the pointee of a Pointer for every numeric pointer
\* variant (all integer widths and both float widths), leaving every other
\* stack slot and global unchanged.
C27_IncrementEveryNumericPointer ==
    [][IncrementsNumeric =>
          LET i == stack_top(stack).v.index + 1
          IN /\ status' = "running"
             /\ globals' = [globals EXCEPT ![i] = PlusOne(@)]
             /\ stack' = stack_popped(stack)]_vars

\* the value global `slot` holds once the expressions of s have been evaluated
RECURSIVE GlobalAfter(_, _)
GlobalAfter(s, slot) ==
    CASE s.kind = "getg" -> GlobalAfter(s.after, slot)
      [] s.kind = "setg" /\ s.slot = slot -> StoredValue
      [] s.kind = "gptr" /\ s.slot = slot -> Value_Int(s.a)
      [] OTHER -> InitGlobals[slot + 1]

\* C24: across sequential VM invocations on one Interp the globals carry over
\* and the VM state does not: a value one run stored in a global slot (by
\* SetGlobal, or by Assign through GetGlobalPtr) is the value GetGlobal(slot)
\* pushes in the next run, and every run starts from an empty operand stack and
\* an empty frame stack, to which run_func adds the start function and its frame.
C24_GlobalsCarryOverStacksDoNot ==
    [][/\ (scn.kind = "getg" /\ status' = "returned") =>
             result' = GlobalAfter(scn.after, scn.slot)
       /\ (status = "returned" /\ status' = "session") => globals' = globals
       /\ (status = "session" /\ status' = "running") =>
             /\ globals' = globals
             /\ stack'[1].tag = "Func" /\ stack'[1].v.name = "__vm_start"
             /\ stack' = <<stack'[1]>> \o Units(stack'[1].v.code.locals)
             /\ frames' = <<StackFrame_new(0, 0)>>]_vars

C24_Witness ==
    /\ scn.kind = "getg" /\ scn.slot = 1
    /\ scn.after.kind = "setg" /\ scn.after.slot = 1 /\ scn.after.j = 0
    /\ status = "returned" /\ result = StoredValue /\ last.op = "Halt"
    /\ globals[2] = StoredValue

\* the step is the lowering pass calling the named session operation
Calls(op) == Lowering /\ last'.op = op

\* C21: in every state reachable from Interp::new constants[0] is the Unit
\* value, so PushConst(0) always pushes Unit; push_const never returns slot 0.
C21_SlotZeroIsUnit ==
    /\ constants[1] = Value_unit
    /\ [][/\ constants'[1] = Value_unit
          /\ Calls("push_const") => last'.arg > 0
          /\ (AtInst("PushConst") /\ CurInst.arg = 0 /\ Len(stack) < STACK_MAX) =>
                (status' = "running" /\ stack' = stack_push(stack, Value_unit))]_vars

C21_Witness ==
    /\ scn.kind = "steps" /\ status = "running"
    /\ last = Inst("PushConst", 0) /\ stack_top(stack) = Value_unit
    /\ Len(constants) >= 3 /\ constants[1] = Value_unit

\* C22: Constants is append-only and never written by the VM: push_const(value)
\* stores value at index = previous length, returns that index, emits
\* PushConst(that index) and leaves every existing entry unchanged; no
\* instruction executed during a run changes Constants, and PushConst pushes a
\* copy of the entry.
C22_ConstantsAppendOnly ==
    [][/\ Len(constants') >= Len(constants)
       /\ SubSeq(constants', 1, Len(constants)) = constants
       /\ Calls("push_const") =>
             /\ constants' = Append(constants, last'.value)
             /\ last'.arg = Len(constants)
             /\ lowered_code' = code_push(lowered_code, Inst("PushConst", Len(constants)))
       /\ (status = "running") => constants' = constants
       /\ (AtInst("PushConst") /\ CurInst.arg < Len(constants) /\ Len(stack) < STACK_MAX) =>
             stack' = stack_push(stack, constants[CurInst.arg + 1])]_vars

C22_Witness ==
    /\ scn.kind = "steps" /\ status = "session"
    /\ last.op = "push_const" /\ last.arg = 2 /\ last.value = Value_Int(5)
    /\ constants = <<Value_unit, Value_Bool(TRUE), Value_Int(5)>>
    /\ lowered_code.instructions = <<Inst("PushConst", 1), Inst("PushConst", 2)>>

\* distinct ids have distinct slots, and every slot is a slot of Globals
TableIsInjection ==
    /\ \A i \in DOMAIN bindings_to_globals : bindings_to_globals[i] < Len(globals)
    /\ \A i, j \in DOMAIN bindings_to_globals :
          i # j => bindings_to_globals[i] # bindings_to_globals[j]

\* C23: insert_global(id, v) for an id that has a slot overwrites globals[slot]
\* with v, returns the same slot and leaves the length and every other slot
\* unchanged; for a new id it appends v and returns the new last index; at all
\* times distinct ids map to distinct slots below the Globals length, and
\* get_global(id) is the slot insert_global returned for id, None before that.
C23_BindingTableStableInjection ==
    /\ TableIsInjection
    /\ (scn.kind = "steps") => \A id \in GlobalIds : get_global(bindings_to_globals, id) = None
    /\ [][/\ TableIsInjection'
          /\ IF Calls("insert_global")
             THEN LET id == last'.id
                      slot == last'.arg
                  IN /\ IF id \in DOMAIN bindings_to_globals
                        THEN /\ slot = bindings_to_globals[id]
                             /\ globals' = [globals EXCEPT ![slot + 1] = last'.value]
                        ELSE /\ slot = Len(globals)
                             /\ globals' = Append(globals, last'.value)
                     /\ get_global(bindings_to_globals', id) = Some(slot)
                     /\ \A other \in GlobalIds \ {id} :
                           get_global(bindings_to_globals', other)
                               = get_global(bindings_to_globals, other)
             ELSE bindings_to_globals' = bindings_to_globals
          /\ Calls("get_global") =>
                last'.ret = get_global(bindings_to_globals', last'.id)]_vars

C23_Witness ==
    /\ scn.kind = "steps" /\ status = "session"
    /\ last.op = "insert_global" /\ last.id = 1 /\ last.arg = 0 /\ last.value = Value_Int(2)
    /\ globals = <<Value_Int(2), Value_Int(1)>>
    /\ get_global(bindings_to_globals, 1) = Some(0)
    /\ get_global(bindings_to_globals, 2) = Some(1)

\* C25: for each of the three trace levels the trace step changes no
\* operand-stack slot, frame, ip, global or constant and does not end the run,
\* at every instruction fetch of a run; a run traced at any level therefore goes
\* through the states, and returns the result, of the run traced at None.
C25_TraceIsObservational ==
    (status = "running" /\ CurFrame.ip >= 0 /\ CurFrame.ip < Len(CurCode)) =>
        LET vm == [stack |-> stack, frames |-> frames, frame |-> frame]
        IN \A level \in TraceLevels, build \in Builds :
              /\ ~trace(vm, level, build).aborts
              /\ trace(vm, level, build).vm = vm

C25_Witness ==
    /\ scn.kind = "call" /\ scn.argc = 2 /\ scn.pre = 0
    /\ status = "running" /\ Len(frames) = 2 /\ CurFunc.name = "f"
    /\ CurFrame.stack_slot = Len(CurFunc.arg_types) + 1
    /\ ~trace([stack |-> stack, frames |-> frames, frame |-> frame], "Full", "checked").aborts

----------------------------------------------------------------------------
\* The earlier revision of the loop, chili_interp/src/vm.rs (VM::run, run_loop).
\* It runs on the same state: constants and globals of the Interp, the operand
\* stack, and the frame stack, whose CallFrames own their function.

MaxOldInt == 3      \* Int operands of the earlier loop's programs: -MaxOldInt..MaxOldInt

OldInts == (0 - MaxOldInt)..MaxOldInt

Func(name, param_count, code) == [name |-> name, param_count |-> param_count, code |-> code]

CallFrame_new(func, slot) == [func |-> func, ip |-> 0, slot |-> slot]

\* the Bytecode handed to run, with the constants and globals it is run on
DivPrograms ==
    {[kind |-> "div",
      constants |-> <<Value_Int(a), Value_Int(b)>>,
      globals |-> <<>>,
      code |-> <<Inst("PushConst", 0), Inst("PushConst", 1), Inst("Div", 0), Inst("Halt", 0)>>] :
        a \in OldInts, b \in OldInts}

GlobalPrograms ==
    {[kind |-> "global",
      constants |-> <<Value_Int(7)>>,
      globals |-> InitGlobals,
      code |-> <<Inst("PushConst", 0), Inst("SetGlobal", slot), Inst("GetGlobal", j), Inst("Halt", 0)>>] :
        slot \in 0..(NumGlobals + 1), j \in 0..(NumGlobals + 1)}

\* 0: 7  1: Jmp(offset)  2: 7  3: Halt
JmpPrograms ==
    {[kind |-> "jmp",
      constants |-> <<Value_Int(7)>>,
      globals |-> <<>>,
      code |-> <<Inst("PushConst", 0), Inst("Jmp", o), Inst("PushConst", 0), Inst("Halt", 0)>>] :
        o \in JmpOffsets}

OldPrograms == DivPrograms \cup GlobalPrograms \cup JmpPrograms

OldInit ==
    /\ scn \in OldPrograms
    /\ constants = scn.constants
    /\ globals = scn.globals
    /\ bindings_to_globals = Interp_new_bindings
    /\ lowered_code = CompiledCode_new
    /\ env = Env_default
    /\ CheckSess_new
    /\ evaluated_globals = <<>>
    /\ stack = <<>>
    /\ frames = <<>>
    /\ frame = 0
    /\ status = "session"
    /\ result = NoValue
    /\ ffi_values = <<>>
    /\ push_frame_calls = 0
    /\ returns_executed = 0
    /\ last = Inst("None", 0)

OldUnchanged ==
    UNCHANGED <<constants, evaluated_globals, scn, frame, ffi_values,
                push_frame_calls, returns_executed, bindings_to_globals, lowered_code, env,
                CheckVars>>

\* VM::run: wrap the code in the function "root" and push its frame at slot 0
run ==
    /\ status = "session"
    /\ frames' = stack_push(frames, CallFrame_new(Func("root", 0, scn.code), 0))
    /\ status' = "running"
    /\ UNCHANGED <<stack, globals, result, last>>
    /\ OldUnchanged

\* run_loop: fetch at the top frame's ip, then advance the ip, then execute
run_loop_fetched == stack_peek(frames, 0).func.code[stack_peek(frames, 0).ip + 1]

run_loop_advanced ==
    [frames EXCEPT ![Len(frames)].ip = @ + 1]

run_loop(op) ==
    /\ status = "running"
    /\ stack_peek(frames, 0).ip < Len(stack_peek(frames, 0).func.code)
    /\ run_loop_fetched.op = op
    /\ last' = run_loop_fetched
    /\ frames' = run_loop_advanced
    /\ OldUnchanged

run_loop_PushConst ==
    /\ run_loop("PushConst")
    /\ stack' = stack_push(stack, constants[run_loop_fetched.arg + 1])
    /\ UNCHANGED <<globals, status, result>>

\* Instruction::Div: b is popped first, then a; the arm matches (b, a), tests
\* a against 0 and pushes b / a
run_loop_Div_arm(b, a) ==
    IF b.tag # "Int" \/ a.tag # "Int" THEN [aborts |-> TRUE, value |-> NoValue]
    ELSE IF a.v = 0 THEN [aborts |-> TRUE, value |-> NoValue]
    ELSE [aborts |-> FALSE, value |-> Value_Int(tdiv(b.v, a.v))]

run_loop_Div ==
    /\ run_loop("Div")
    /\ LET b == stack_peek(stack, 0)
           a == stack_peek(stack, 1)
           r == run_loop_Div_arm(b, a)
       IN IF r.aborts
          THEN status' = "panicked" /\ stack' = stack_popped(stack_popped(stack))
          ELSE status' = "running"
               /\ stack' = stack_push(stack_popped(stack_popped(stack)), r.value)
    /\ UNCHANGED <<globals, result>>

\* Vec::insert(index, element): panics when index > len, otherwise shifts
\* every element from index on one place up
Vec_insert(v, at, element) ==
    [k \in 1..(Len(v) + 1) |->
        IF k <= at THEN v[k] ELSE IF k = at + 1 THEN element ELSE v[k - 1]]

run_loop_SetGlobal ==
    /\ run_loop("SetGlobal")
    /\ stack' = stack_popped(stack)
    /\ IF run_loop_fetched.arg > Len(globals)
       THEN status' = "panicked" /\ UNCHANGED globals
       ELSE status' = "running"
            /\ globals' = Vec_insert(globals, run_loop_fetched.arg, stack_peek(stack, 0))
    /\ UNCHANGED result

run_loop_GetGlobal ==
    /\ run_loop("GetGlobal")
    /\ IF run_loop_fetched.arg < Len(globals)
       THEN status' = "running" /\ stack' = stack_push(stack, globals[run_loop_fetched.arg + 1])
       ELSE status' = "panicked" /\ UNCHANGED stack
    /\ UNCHANGED <<globals, result>>

\* Instruction::Halt => break self.stack.pop()
run_loop_Halt ==
    /\ run_loop("Halt")
    /\ result' = stack_peek(stack, 0)
    /\ stack' = stack_popped(stack)
    /\ status' = "returned"
    /\ UNCHANGED globals

run_loop_jmp_back(fs, offset) == [fs EXCEPT ![Len(fs)].ip = @ + offset - 1]
\* VM::jmp of the earlier loop: ip = ip + offset, on the top frame
run_loop_jmp(fs, offset) == [fs EXCEPT ![Len(fs)].ip = @ + offset]

\* Instruction::Jmp: jmp is applied to the ip the loop has already advanced
run_loop_Jmp ==
    /\ status = "running"
    /\ stack_peek(frames, 0).ip < Len(stack_peek(frames, 0).func.code)
    /\ run_loop_fetched.op = "Jmp"
    /\ last' = run_loop_fetched
    /\ frames' = run_loop_jmp(run_loop_advanced, run_loop_fetched.arg)
    /\ UNCHANGED <<stack, globals, status, result>>
    /\ OldUnchanged

OldNext ==
    \/ run
    \/ run_loop_Jmp
    \/ run_loop_PushConst
    \/ run_loop_Div
    \/ run_loop_SetGlobal
    \/ run_loop_GetGlobal
    \/ run_loop_Halt

OldSpec == OldInit /\ [][OldNext]_vars

\* C29: in the earlier loop SetGlobal(slot) on a defined slot stores the popped
\* value at globals[slot], where GetGlobal(slot) reads it, keeps the length of
\* Globals and leaves every other slot as it was.
C29_OldSetGlobalIsIndexedWrite ==
    [][(run_loop("SetGlobal") /\ run_loop_fetched.arg < Len(globals)) =>
          /\ status' = "running"
          /\ Len(globals') = Len(globals)
          /\ globals'[run_loop_fetched.arg + 1] = stack_peek(stack, 0)
          /\ \A j \in 0..(Len(globals) - 1) :
                j # run_loop_fetched.arg => globals'[j + 1] = globals[j + 1]]_vars

\* C30: in the earlier loop Div on Int operands a (pushed first) and b (on top)
\* aborts exactly when b is 0 and otherwise pushes Int(a / b).
C30_OldDivFirstBySecond ==
    [][run_loop("Div") =>
          LET b == stack_peek(stack, 0)
              a == stack_peek(stack, 1)
          IN IF b.v = 0
             THEN status' = "panicked"
             ELSE /\ status' = "running"
                  /\ stack' = stack_push(stack_popped(stack_popped(stack)),
                                         Value_Int(tdiv(a.v, b.v)))]_vars

\* C31: Jmp(offset) executed at instruction index i sets the active frame's ip
\* to i + offset, so that Jmp(0) fetches the same instruction again, and changes
\* neither the operand stack nor the frame stack otherwise.
C31_JmpIsRelativeToItself ==
    [][AtInst("Jmp") =>
          /\ status' = "running"
          /\ frames' = [frames EXCEPT ![frame].ip = CurFrame.ip + CurInst.arg]
          /\ stack' = stack
          /\ frame' = frame]_vars

C31_Witness ==
    /\ scn.kind = "jmp" /\ scn.offset = 0
    /\ status = "running" /\ last = Inst("Jmp", 0)
    /\ AtInst("Jmp") /\ CurInst = last
    /\ Len(evaluated_globals) = 0 /\ CurFrame.ip = 3

\* the instruction a frame stack's top frame fetches next
FetchIndex(fs) == fs[Len(fs)].ip
OldAtJmp == status = "running" /\ FetchIndex(frames) < Len(frames[Len(frames)].func.code)
                               /\ run_loop_fetched.op = "Jmp"

\* C32 as stated: Jmp(offset) at index i of the earlier loop transfers control
\* to the index the vm/mod.rs jmp computes from the same i and offset.
C32_SameJumpTarget ==
    [][OldAtJmp =>
          FetchIndex(frames') =
              FetchIndex(jmp(frames, Len(frames), run_loop_fetched.arg))]_vars

\* C32: Jmp(offset) at index i of the earlier loop transfers control to
\* i + 1 + offset, one instruction past the index i + offset the vm/mod.rs jmp
\* computes from the same i and offset.
C32_OldJumpTargetOnePast ==
    [][OldAtJmp =>
          FetchIndex(frames') =
              FetchIndex(jmp(frames, Len(frames), run_loop_fetched.arg)) + 1]_vars

C32_Witness ==
    /\ scn.kind = "jmp" /\ last = Inst("Jmp", 0)
    /\ status = "running" /\ FetchIndex(frames) = 2
    /\ run_loop_fetched = Inst("PushConst", 0)

\* the instruction the k-th frame of the frame stack is at
InstOf(k) == StackFrame_func(stack, frames[k]).code.instructions[frames[k].ip + 1]

\* C33: a Return from a non-outermost frame resumes the caller at the
\* instruction after the Call it was waiting at, and no step of a callee
\* changes the ip or the stack_slot of a frame below the active one.
C33_ReturnResumesAfterCall ==
    [][(status = "running" /\ status' = "running") =>
          /\ \A k \in 1..(Len(frames) - 1) :
                k < Len(frames') => frames'[k] = frames[k]
          /\ Len(frames') < Len(frames) =>
                /\ AtInst("Return")
                /\ Len(frames') = Len(frames) - 1
                /\ InstOf(Len(frames')).op = "Call"
                /\ frames'[Len(frames')] =
                      [frames[Len(frames')] EXCEPT !.ip = @ + 1]
                /\ frame' = Len(frames')]_vars

C33_Witness ==
    /\ status = "running" /\ last.op = "Return" /\ Len(frames) = 2
    /\ frames[2].ip > 0
    /\ StackFrame_func(stack, frames[2]).code.instructions[frames[2].ip].op = "Call"

AssignWrites(lvalue, rvalue) ==
    /\ status' = "running"
    /\ stack' = stack_popped(stack_popped(stack))
    /\ globals' = write_value(globals, lvalue.v, rvalue)

C35_CallOperandNotConsulted ==
    [][(status = "running" /\ status' = "running") =>
          /\ (AtInst("Call") /\ stack_peek(stack, 0).tag = "Func") =>
                /\ stack' = stack \o Units(stack_peek(stack, 0).v.code.locals)
                /\ frames' = stack_push(frames, StackFrame_new(Len(stack) - 1, Len(stack) - 1))
          /\ (AtInst("Return") /\ Len(frames) >= 2) =>
                LET declared == Len(CurFunc.arg_types)
                    argc == InstOf(Len(frames) - 1).arg
                IN /\ Len(stack') = CurFrame.stack_slot - declared + 1
                   /\ argc # declared => Len(stack') # CurFrame.stack_slot - argc + 1]_vars

C35_Witness ==
    /\ scn.kind = "callop" /\ scn.argc = 2 /\ scn.operand = 0 /\ scn.pre = 1
    /\ status = "running" /\ last.op = "Return" /\ Len(frames) = 1
    /\ stack = <<stack[1], PreValue, RetValue>>

\* C36: the k-th add_local call on a CompiledCode binds its binding id to
\* frame-relative slot k and leaves code.locals = k, so every bound slot n
\* satisfies 1 <= n <= locals, and push_frame reserves the Unit cells
\* S+1 .. S+locals those slots designate.
C36_AddLocalNumbersFromOne ==
    [][/\ Calls("add_local") =>
             /\ status' = status
             /\ lowered_code'.locals = scn'.calls
             /\ env'[last'.id] = scn'.calls
             /\ \A id \in DOMAIN env' : 1 <= env'[id] /\ env'[id] <= lowered_code'.locals
       /\ (AtInst("Call") /\ stack_peek(stack, 0).tag = "Func" /\ status' = "running") =>
             LET S == Len(stack) - 1
                 locals == stack_peek(stack, 0).v.code.locals
             IN /\ frames'[frame'].stack_slot = S
                /\ Len(stack') = S + locals + 1
                /\ \A n \in 1..locals : stack_get(stack', S + n) = Value_unit]_vars

\* the code of the start function, once eval has pushed it
StartCode == stack[1].v.code.instructions

\* eval's start code: PushConst(slot), Call(0) per evaluated global, the slot
\* holding the freshly appended function global_init_i; then the lowered
\* expression; then Halt
StartCodeLayout(code, pool, lowered, egs) ==
    LET n == Len(egs)
        m == Len(lowered.code.instructions)
    IN /\ Len(pool) = Len(lowered.constants) + n
       /\ Len(code) = 2 * n + m + 1
       /\ \A i \in 1..n :
             /\ code[2 * i - 1] = Inst("PushConst", Len(lowered.constants) + i - 1)
             /\ code[2 * i] = Inst("Call", 0)
             /\ pool[Len(lowered.constants) + i]
                   = Value_Func(Function(<<"global_init", i - 1>>, <<>>, egs[i]))
       /\ SubSeq(code, 2 * n + 1, 2 * n + m) = lowered.code.instructions
       /\ code[2 * n + m + 1] = Inst("Halt", 0)

\* while the start function is in its initializer prefix, the initializers
\* before its ip have returned and the one it is calling is the active
\* function; the expression starts after all of them have returned
InitializersInOrder ==
    (status = "running" /\ Len(evaluated_globals) > 0) =>
        LET n == Len(evaluated_globals)
            ip == frames[1].ip
        IN /\ (Len(frames) = 1 /\ 0 <= ip /\ ip <= 2 * n) => returns_executed = ip \div 2
           /\ (Len(frames) > 1 /\ ip < 2 * n) =>
                 /\ ip % 2 = 1
                 /\ returns_executed = ip \div 2
                 /\ StackFrame_func(stack, frames[2]).name = <<"global_init", ip \div 2>>
           /\ ip >= 2 * n => returns_executed >= n

\* C37: the code eval hands to the VM is the initializer calls in list order,
\* then the lowered expression, then Halt, and every initializer has run to
\* its Return, in list order, before the expression's first instruction runs.
C37_InitializersThenExpressionThenHalt ==
    [][/\ (status = "session" /\ status' = "running") =>
             StartCodeLayout(StartCode', constants', Lower(scn), evaluated_globals)
       /\ InitializersInOrder']_vars

C37_Witness ==
    /\ Len(evaluated_globals) = 2 /\ scn.kind = "add"
    /\ status = "running" /\ Len(frames) = 1 /\ frames[1].ip = 4
    /\ returns_executed = 2 /\ last.op = "Return"

\* q is a / b truncated toward zero; r is the remainder that goes with it
TruncatedQuotient(a, b, q) ==
    LET r == a - q * b
    IN abs(r) < abs(b) /\ (r = 0 \/ (r > 0) = (a > 0))
TruncatedRemainder(a, b, r) ==
    /\ abs(r) < abs(b) /\ (r = 0 \/ (r > 0) = (a > 0))
    /\ \E q \in (0 - abs(a))..abs(a) : a = q * b + r

\* C38: on two operands of one signed integer variant Div and Rem abort
\* exactly when the divisor is zero or the dividend is the variant's minimum and
\* the divisor is -1, and otherwise push the truncated quotient (remainder)
\* with the operands' tag. (The minimum is among the operands of the 8- and
\* 16-bit variants.)
C38_SignedDivRemFaults ==
    [][((AtInst("Div") \/ AtInst("Rem")) /\ Len(stack) >= 2
          /\ stack_peek(stack, 0).tag = stack_peek(stack, 1).tag
          /\ stack_peek(stack, 0).tag \in SignedTags) =>
          LET b == stack_peek(stack, 0)
              a == stack_peek(stack, 1)
              rest == stack_popped(stack_popped(stack))
          IN IF b.v = 0 \/ (a.tag \in NarrowTags /\ a.v = TagMin(a.tag) /\ b.v = -1)
             THEN status' = "panicked"
             ELSE /\ status' = "running"
                  /\ Len(stack') = Len(rest) + 1
                  /\ SubSeq(stack', 1, Len(rest)) = rest
                  /\ stack_top(stack').tag = a.tag
                  /\ IF AtInst("Div")
                     THEN TruncatedQuotient(a.v, b.v, stack_top(stack').v)
                     ELSE TruncatedRemainder(a.v, b.v, stack_top(stack').v)]_vars

C38_Witness ==
    /\ scn.kind = "binop" /\ scn.op = "Rem" /\ scn.ta = "I16" /\ scn.tb = "I16"
    /\ scn.a = TagMin("I16") /\ scn.b = -1
    /\ last.op = "Rem" /\ status = "panicked"

\* C40: at every instruction fetch of the loop the cached active-frame pointer
\* designates the top element of the frame stack: after push_frame it
\* designates the new frame, after a non-outermost Return the caller's frame,
\* and no other instruction changes which frame is active.
C40_ActiveFrameIsTopFrame ==
    [][/\ status' = "running" => (frames' # <<>> /\ frame' = Len(frames'))
       /\ (status = "running" /\ status' = "running") =>
             CASE CallsFunction -> frame' = frame + 1
               [] AtInst("Return") -> frame' = frame - 1 /\ frame' >= 1
               [] OTHER -> frame' = frame /\ Len(frames') = Len(frames)]_vars

C40_Witness ==
    /\ status = "running" /\ last.op = "Return"
    /\ Len(frames) = 2 /\ frame = 2 /\ returns_executed >= 1 /\ push_frame_calls >= 3

----------------------------------------------------------------------------
\* The checker's top-level name resolution, src/check/top_level.rs. One module
\* holds the bindings 1..MaxBindings; the body of a binding refers to other
\* top-level names, each resolved by a nested check_top_level_binding call, and
\* a failed resolution fails the body's check (the ? idiom of the checker).

MaxBindings == 2    \* top-level bindings of the checked module

ModuleBindings == 1..MaxBindings

\* the key of encountered_items: (module_id, index), in the module 0
Item(idx) == <<0, idx>>

\* what the body of a binding refers to, and the bindings whose body does not
\* type-check by itself
RefLists == {<<>>} \cup {<<b>> : b \in ModuleBindings}
CheckPrograms ==
    {[kind |-> "check", refs |-> r, broken |-> k] :
        r \in [ModuleBindings -> RefLists], k \in SUBSET ModuleBindings}

CheckInit ==
    /\ scn \in CheckPrograms
    /\ CheckSess_new
    /\ constants = Interp_new_constants
    /\ globals = <<>>
    /\ bindings_to_globals = Interp_new_bindings
    /\ lowered_code = CompiledCode_new
    /\ env = Env_default
    /\ evaluated_globals = <<>>
    /\ stack = <<>>
    /\ frames = <<>>
    /\ frame = 0
    /\ status = "checking"
    /\ result = NoValue
    /\ ffi_values = <<>>
    /\ push_frame_calls = 0
    /\ returns_executed = 0
    /\ last = Inst("None", 0)

CheckUnchanged ==
    UNCHANGED <<constants, globals, evaluated_globals, scn, stack, frames, frame, result,
                ffi_values, push_frame_calls, returns_executed, bindings_to_globals,
                lowered_code, env>>

Returned(idx, ret) == [op |-> "check_top_level_binding", arg |-> idx, ret |-> ret]

\* the caller's body check goes on to its next reference
Resumed(calls) ==
    IF calls = <<>> THEN calls ELSE [calls EXCEPT ![Len(calls)].pos = @ + 1]

\* an Err travels up through the ? of every call in progress
Failing(calls) == IF calls = <<>> THEN "checking" ELSE "failing"

\* the name a call may be made for: any binding, when no check is in progress
\* (the checker's clients); the next reference of the body being checked
MayCall(idx) ==
    /\ status = "checking"
    /\ \/ checking = <<>>
       \/ /\ checking # <<>>
          /\ stack_top(checking).pos < Len(scn.refs[stack_top(checking).binding])
          /\ idx = scn.refs[stack_top(checking).binding][stack_top(checking).pos + 1]

\* get_global_binding_id(module_id, name) is Some
Known(idx) == idx \in global_bindings

\* !self.encountered_items.insert((module_id, index))
AlreadyEncountered(idx) == Item(idx) \in encountered_items

\* check_top_level_binding, up to the call of binding.check_top_level
check_top_level_binding ==
    \E idx \in ModuleBindings :
        /\ MayCall(idx)
        /\ CASE Known(idx) ->
                  /\ last' = Returned(idx, "Ok")
                  /\ checking' = Resumed(checking)
                  /\ UNCHANGED <<encountered_items, global_bindings, status>>
             [] ~Known(idx) /\ AlreadyEncountered(idx) ->
                  /\ last' = Returned(idx, "cycle detected")
                  /\ status' = Failing(checking)
                  /\ UNCHANGED <<encountered_items, global_bindings, checking>>
             [] OTHER ->
                  /\ encountered_items' = encountered_items \cup {Item(idx)}
                  /\ checking' = stack_push(checking, [binding |-> idx, pos |-> 0])
                  /\ last' = [op |-> "check_top_level", arg |-> idx]
                  /\ UNCHANGED <<global_bindings, status>>
        /\ CheckUnchanged

\* binding.check_top_level(self)? returned: with Ok the bound names are in the
\* cache, the entry is removed and the id returned; with Err the ? returns at
\* once
check_top_level_returns ==
    /\ status = "checking"
    /\ checking # <<>>
    /\ stack_top(checking).pos = Len(scn.refs[stack_top(checking).binding])
    /\ LET idx == stack_top(checking).binding
           calls == stack_popped(checking)
       IN IF idx \in scn.broken
          THEN /\ last' = Returned(idx, "Err")
               /\ checking' = calls
               /\ status' = Failing(calls)
               /\ UNCHANGED <<encountered_items, global_bindings>>
          ELSE /\ last' = Returned(idx, "Ok")
               /\ global_bindings' = global_bindings \cup {idx}
               /\ encountered_items' = encountered_items \ {Item(idx)}
               /\ checking' = Resumed(calls)
               /\ UNCHANGED status
    /\ CheckUnchanged

\* the Err of a nested call fails the body's check, and
\* binding.check_top_level(self)? returns it from the enclosing call
check_top_level_fails ==
    /\ status = "failing"
    /\ checking # <<>>
    /\ LET calls == stack_popped(checking)
       IN /\ last' = Returned(stack_top(checking).binding, "Err")
          /\ checking' = calls
          /\ status' = Failing(calls)
    /\ UNCHANGED <<encountered_items, global_bindings>>
    /\ CheckUnchanged

CheckNext ==
    \/ check_top_level_binding
    \/ check_top_level_returns
    \/ check_top_level_fails

CheckSpec == CheckInit /\ [][CheckNext]_vars

\* a check of the binding, started by a check_top_level_binding call, has not
\* returned yet
InProgress(idx) == \E i \in DOMAIN checking : checking[i].binding = idx

\* C39: a check_top_level_binding call returns 'cycle detected' for a binding
\* only if a check of that binding is still in progress, and an entry of
\* encountered_items belongs to a call that has not returned yet.
C39_CycleDetectionSound ==
    /\ \A idx \in ModuleBindings :
          (MayCall(idx) /\ ~Known(idx) /\ AlreadyEncountered(idx)) => InProgress(idx)
    /\ \A idx \in ModuleBindings : AlreadyEncountered(idx) => InProgress(idx)

====
